---------------------------- MODULE Spec2Model ----------------------------
(***************************************************************************)
(* The line-oriented parsers of the symptom and report pages:              *)
(*   buildStructuredResult  (frontend/src/pages/PromptPage.jsx)            *)
(*   buildReportStructure   (ReportPage, unnamed/part_001)                 *)
(* with the helpers they call: resolveSection, parseCondition,             *)
(* cleanBullet, mapConfidence, resolveReportSection and stripMarkers, and   *)
(* the submit handlers of PromptPage, ReportPage and the symptom form       *)
(* (unnamed/part_000) with the two endpoints of the backend they call.      *)
(*                                                                         *)
(* A JavaScript string is a sequence of characters, and a character is a   *)
(* one-character TLA+ string.  The three non-ASCII characters the regular  *)
(* expressions name are written as their code points.  Every regular       *)
(* expression of the source is spelled out as an operator on sequences.    *)
(***************************************************************************)
EXTENDS Integers, Sequences, FiniteSets, TLC

VARIABLES
    mode,       \* the function that runs: "prediction" is buildStructuredResult,
                \* "report" is buildReportStructure, or the name of a classifier
    rawText,    \* its argument
    lines,      \* const lines of the parsers
    pos,        \* the position of the for...of loop in lines
    section,    \* let section of the parsers
    base,       \* const base of the parsers, the object they return
    returned,   \* the value a classifier returned
    pc,         \* "start", "loop", "done", "threw"; "call", "return" for a classifier
    page,       \* the page that is mounted: "PromptPage", "ReportPage" or "SymptomForm"
    ui,         \* its state: the useState values, or the DOM of the symptom form
    calls,      \* the invocations of its submit handler that have not finished
    late        \* a user action changed ui since the pending request was sent

vars == <<mode, rawText, lines, pos, section, base, returned, pc, page, ui, calls, late>>

-----------------------------------------------------------------------------
(* Characters *)

BulletGlyph == "u2022"
EnDash == "u2013"
EmDash == "u2014"

\* The values a caller can pass that are not strings.
Null == <<"null">>
Undefined == <<"undefined">>

\* \s of the regular expressions and the characters String.prototype.trim removes.
WhiteSpace == {" ", "\t", "\n", "\r"}

\* \d
Digit == {"0", "1", "2", "3", "4", "5", "6", "7", "8", "9"}

LowerOf ==
    ("A" :> "a") @@ ("B" :> "b") @@ ("C" :> "c") @@ ("D" :> "d") @@ ("E" :> "e") @@
    ("F" :> "f") @@ ("G" :> "g") @@ ("H" :> "h") @@ ("I" :> "i") @@ ("J" :> "j") @@
    ("K" :> "k") @@ ("L" :> "l") @@ ("M" :> "m") @@ ("N" :> "n") @@ ("O" :> "o") @@
    ("P" :> "p") @@ ("Q" :> "q") @@ ("R" :> "r") @@ ("S" :> "s") @@ ("T" :> "t") @@
    ("U" :> "u") @@ ("V" :> "v") @@ ("W" :> "w") @@ ("X" :> "x") @@ ("Y" :> "y") @@
    ("Z" :> "z")

-----------------------------------------------------------------------------
(* String primitives *)

Min(S) == CHOOSE m \in S : \A n \in S : m <= n

Max(S) == CHOOSE m \in S : \A n \in S : m >= n

\* s.slice(from - 1): the suffix of s that starts at position from.
From(s, from) == SubSeq(s, from, Len(s))

toLowerCase(s) ==
    [k \in 1..Len(s) |-> IF s[k] \in DOMAIN LowerOf THEN LowerOf[s[k]] ELSE s[k]]

\* String.prototype.trim
trim(s) ==
    LET kept == {k \in 1..Len(s) : s[k] \notin WhiteSpace}
    IN  IF kept = {} THEN <<>> ELSE SubSeq(s, Min(kept), Max(kept))

\* p occurs in s at position k.
At(s, p, k) ==
    /\ k >= 1
    /\ k + Len(p) - 1 <= Len(s)
    /\ \A j \in 1..Len(p) : s[k + j - 1] = p[j]

\* The first position >= from at which p occurs in s, 0 when there is none.
indexOf(s, p, from) ==
    LET hits == {k \in from..Len(s) : At(s, p, k)}
    IN  IF hits = {} THEN 0 ELSE Min(hits)

\* String.prototype.includes, and RegExp.test for a literal pattern.
includes(s, p) == \E k \in 1..Len(s) : At(s, p, k)

\* s.replace(/^[class]+/, ""): s without its leading run of characters of class.
dropLeading(s, class) ==
    LET stop == {k \in 1..Len(s) : s[k] \notin class}
    IN  IF stop = {} THEN <<>> ELSE From(s, Min(stop))

\* s.replace(/\s+/g, " "): every run of white space becomes one space.
collapseWhiteSpace(s) ==
    LET marked == [k \in 1..Len(s) |->
                     IF s[k] \notin WhiteSpace THEN s[k]
                     ELSE IF k > 1 /\ s[k - 1] \in WhiteSpace THEN "" ELSE " "]
    IN  SelectSeq(marked, LAMBDA c : c # "")

\* parts.join(sep)
RECURSIVE join(_, _)
join(parts, sep) ==
    IF parts = <<>> THEN <<>>
    ELSE IF Len(parts) = 1 THEN parts[1]
    ELSE parts[1] \o sep \o join(Tail(parts), sep)

\* text.split(/\r?\n/)
RECURSIVE splitLines(_)
splitLines(text) ==
    LET nl == indexOf(text, <<"\n">>, 1)
        cut == IF nl > 1 /\ text[nl - 1] = "\r" THEN nl - 1 ELSE nl
    IN  IF nl = 0 THEN <<text>>
        ELSE <<SubSeq(text, 1, cut - 1)>> \o splitLines(From(text, nl + 1))

\* The first position at which /\s-\s/ matches s, 0 when there is none.
dashSeparator(s) ==
    LET hits == {k \in 1..(Len(s) - 2) :
                   s[k] \in WhiteSpace /\ s[k + 1] = "-" /\ s[k + 2] \in WhiteSpace}
    IN  IF hits = {} THEN 0 ELSE Min(hits)

\* body.split(/\s-\s/)
RECURSIVE splitDash(_)
splitDash(s) ==
    LET k == dashSeparator(s)
    IN  IF k = 0 THEN <<s>>
        ELSE <<SubSeq(s, 1, k - 1)>> \o splitDash(From(s, k + 3))

-----------------------------------------------------------------------------
(* PromptPage.jsx: cleanBullet, mapConfidence, resolveSection, parseCondition *)

\* [-*\u2022\d\.\)\s]
BulletClass == {"-", "*", BulletGlyph, ".", ")"} \cup Digit \cup WhiteSpace

\* Mutant of cleanBullet: without the final trim().
cleanBulletUntrimmed(text) == collapseWhiteSpace(dropLeading(text, BulletClass))

cleanBullet(text) == trim(collapseWhiteSpace(dropLeading(text, BulletClass)))

\* Mutant of mapConfidence: "low" is tested before "high".
mapConfidenceLowFirst(label) ==
    LET normalized == toLowerCase(label)
    IN  IF includes(normalized, <<"l", "o", "w">>) THEN 35
        ELSE IF includes(normalized, <<"h", "i", "g", "h">>) THEN 75
        ELSE IF includes(normalized, <<"m", "e", "d">>) THEN 55
        ELSE 60

mapConfidence(label) ==
    LET normalized == toLowerCase(label)
    IN  IF includes(normalized, <<"h", "i", "g", "h">>) THEN 75
        ELSE IF includes(normalized, <<"m", "e", "d", "i", "u",
                                       "m">>) \/ includes(normalized, <<"m", "e", "d">>) THEN 55
        ELSE IF includes(normalized, <<"l", "o", "w">>) THEN 35
        ELSE 60

\* /self[-\s]?care|self[-\s]?monitor/ on a lower-cased line.
selfCareRegex(l) ==
    \E k \in 1..Len(l) :
        /\ At(l, <<"s", "e", "l", "f">>, k)
        /\ \E w \in {<<"c", "a", "r", "e">>, <<"m", "o", "n", "i", "t", "o", "r">>} :
              \/ At(l, w, k + 4)
              \/ /\ k + 4 <= Len(l)
                 /\ l[k + 4] \in {"-"} \cup WhiteSpace
                 /\ At(l, w, k + 5)

NoSection == "null"

\* Mutant of checks: the last two rules change places.
checksDisclaimerFirst ==
    <<"conditions", "redFlags", "selfCare", "disclaimer", "specialist">>

\* The array checks of resolveSection: the keys in order, and each key's regex
\* (all carry the i flag: regexTest(key, l) takes the lower-cased line l).
checks == <<"conditions", "redFlags", "selfCare", "specialist", "disclaimer">>

regexTest(key, l) ==
        CASE key = "conditions" -> includes(l, <<"l", "i", "k", "e", "l", "y", " ", "c", "o",
                                        "n", "d", "i", "t", "i", "o", "n", "s">>)
          [] key = "redFlags"   -> includes(l, <<"r", "e", "d", " ", "f", "l", "a", "g", "s">>)
          [] key = "selfCare"   -> selfCareRegex(l)
          [] key = "specialist" -> \/ includes(l, <<"s", "p", "e", "c", "i", "a", "l", "i", "s",
                                        "t">>)
                                   \/ includes(l, <<"d", "o", "c", "t", "o", "r">>)
                                   \/ includes(l, <<"c", "l", "i", "n", "i", "c", "i", "a", "n">>)
          [] key = "disclaimer" -> includes(l, <<"d", "i", "s", "c", "l", "a", "i", "m", "e", "r">>)

\* checks.find(({ regex }) => regex.test(line))?.key ?? null
resolveSection(line) ==
    LET l == toLowerCase(line)
        found == {k \in 1..Len(checks) : regexTest(checks[k], l)}
    IN  IF found = {} THEN NoSection ELSE checks[Min(found)]

\* body.match(/\*\*(.*?)\*\*/): the positions of the opening and closing "**" of the
\* leftmost span, <<0, 0>> when the pattern does not match.
confidenceMatch(body) ==
    LET open == indexOf(body, <<"*", "*">>, 1)
        close == IF open = 0 THEN 0 ELSE indexOf(body, <<"*", "*">>, open + 2)
    IN  IF close = 0 THEN <<0, 0>> ELSE <<open, close>>

\* body.replace(/^[:\-\u2013\u2014]\s*/, "")
stripSeparator(body) ==
    IF body # <<>> /\ body[1] \in {":", "-", EnDash, EmDash}
    THEN dropLeading(Tail(body), WhiteSpace)
    ELSE body

NoCondition == [null |-> TRUE]

\* Mutant of bulletPrefixed: the test of the prefix is left out.
bulletPrefixedAlways(trimmed) == TRUE

\* /^[-*\u2022\d]/.test(trimmed)
bulletPrefixed(trimmed) ==
    trimmed # <<>> /\ trimmed[1] \in {"-", "*", BulletGlyph} \cup Digit

parseCondition(line) ==
    LET cleaned == cleanBullet(line)
        m == confidenceMatch(cleaned)
        matched == m[1] # 0
        inner == SubSeq(cleaned, m[1] + 2, m[2] - 1)
        confidenceLabel ==
            IF matched THEN trim(SelectSeq(inner, LAMBDA c : c # ":")) ELSE <<>>
        unlabelled ==
            IF matched
            THEN trim(SubSeq(cleaned, 1, m[1] - 1) \o From(cleaned, m[2] + 2))
            ELSE cleaned
        body == stripSeparator(unlabelled)
        parts == splitDash(body)
        titlePart == trim(parts[1])
        title == IF titlePart # <<>> THEN titlePart ELSE body
        summary == trim(join(Tail(parts), <<" ", "-", " ">>))
    IN  IF cleaned = <<>> THEN NoCondition
        ELSE [title |-> title,
              summary |-> summary,
              confidenceLabel |-> confidenceLabel,
              confidencePercent |-> mapConfidence(confidenceLabel)]

-----------------------------------------------------------------------------
(* ReportPage: resolveReportSection, stripMarkers *)

resolveReportSection(line) ==
    LET l == toLowerCase(line)
    IN  IF At(l, <<"*", "*", "s", "u", "m", "m", "a", "r", "y">>, 1) THEN "summaryTitle"
        ELSE IF includes(l, <<"k", "e", "y", " ", "f", "i", "n", "d", "i", "n", "g",
                              "s">>) \/ includes(l, <<"i", "m", "p", "r", "e", "s", "s", "i",
                                        "o", "n", "s">>) THEN "findings"
        ELSE IF includes(l, <<"d", "i", "a", "g", "n", "o", "s", "e",
                              "s">>) \/ includes(l, <<"d", "i", "f", "f", "e", "r", "e", "n",
                                        "t", "i", "a", "l">>) THEN "diagnoses"
        ELSE IF includes(l, <<"m", "e", "d", "i", "c", "a", "t", "i", "o", "n",
                              "s">>) \/ includes(l, <<"l", "a", "b", "s">>) THEN "medications"
        ELSE IF includes(l, <<"f", "o", "l", "l", "o", "w", "-", "u",
                              "p">>) \/ includes(l, <<"f", "o", "l", "l", "o", "w", " ", "u",
                                        "p">>) THEN "followups"
        ELSE IF includes(l, <<"d", "i", "s", "c", "l", "a", "i", "m", "e", "r">>) THEN "disclaimer"
        ELSE NoSection

\* text.replace(/^\*\*|\*\*$/g, ""): the scan removes "**" at the start, then "**"
\* at the end of what is left of the text.
stripBold(text) ==
    LET a == IF At(text, <<"*", "*">>, 1) THEN From(text, 3) ELSE text
    IN  IF Len(a) >= 2 /\ At(a, <<"*", "*">>, Len(a) - 1) THEN SubSeq(a, 1, Len(a) - 2) ELSE a

\* s.replace(/^[class]\s*/, ""): one leading character of class and the white space
\* that follows it.
dropOne(s, class) ==
    IF s # <<>> /\ s[1] \in class THEN dropLeading(Tail(s), WhiteSpace) ELSE s

stripMarkers(text) ==
    trim(collapseWhiteSpace(
        dropOne(dropOne(stripBold(text), {"*"}), {"-", ".", ")"} \cup Digit)))

-----------------------------------------------------------------------------
(* Inputs *)

\* The longest generated text, in lines.
MaxLines == 3

\* Lines a symptom response is made of: blank lines, section headers (one keyword,
\* two keywords, a keyword inside other text), condition bullets in the shapes the
\* parser distinguishes, marker-only lines and prose.
PromptLines ==
    { <<" ">>,
      <<"L", "i", "k", "e", "l", "y", " ", "C", "o", "n", "d", "i", "t", "i", "o", "n", "s", ":">>,
      <<"R", "e", "d", " ", "f", "l", "a", "g", "s">>,
      <<"S", "e", "l", "f", " ", "c", "a", "r", "e">>,
      <<"D", "i", "s", "c", "l", "a", "i", "m", "e", "r", ":">>,
      <<"-", " ", "D", "i", "s", "c", "l", "a", "i", "m", "e", "r", ":", " ", "s", "e", "e",
        " ", "a", " ", "d", "o", "c", "t", "o", "r">>,
      <<"-", " ", "*", "*", "H", "i", "g", "h", "*", "*", ":", " ", "F", "l", "u", " ", "-",
        " ", "f", "e", "v", "e", "r", " ", "a", "n", "d", " ", "c", "o", "u", "g", "h">>,
      <<"-", " ", "F", "l", "u", " ", "*", "*", "H", "i", "g", "h", "*", "*">>,
      <<"-", " ", ":", "*", "*", "H", "i", "g", "h", "*", "*">>,
      <<"-", "-", "-">>,
      <<"T", "h", "i", "s", " ", "i", "s", " ", "f", "o", "r">>,
      <<" ", "2", ")", " ", "R", "e", "s", "t", " ", " ", "a", "n", "d", " ", "\t", " ", "f",
        "l", "u", "i", "d", "s", " ">> }

\* Lines a report analysis is made of.
ReportLines ==
    { <<" ">>,
      <<"*", "*", "S", "u", "m", "m", "a", "r", "y", ":", "*", "*", " ", "M", "i", "l", "d",
        " ", "i", "n", "f", "e", "c", "t", "i", "o", "n">>,
      <<"*", "*", "s", "u", "m", "m", "a", "r", "y", "*", "*", " ", "o", "f", " ", "k", "e",
        "y", " ", "f", "i", "n", "d", "i", "n", "g", "s">>,
      <<"K", "e", "y", " ", "F", "i", "n", "d", "i", "n", "g", "s", ":">>,
      <<"F", "o", "l", "l", "o", "w", "-", "u", "p", " ", "o", "n", " ", "d", "i", "f", "f",
        "e", "r", "e", "n", "t", "i", "a", "l">>,
      <<"D", "i", "s", "c", "l", "a", "i", "m", "e", "r">>,
      <<"-", " ", "E", "l", "e", "v", "a", "t", "e", "d", " ", "W", "B", "C">>,
      <<"1", ".", " ", "E", "l", "e", "v", "a", "t", "e", "d", " ", "W", "B", "C">>,
      <<"-", "-", "-">>,
      <<"1", ".">>,
      <<"*", "*">>,
      <<"T", "h", "i", "s", " ", "i", "s", " ", "f", "o", "r">> }

\* The line terminator after the k-th line: responses mix "\n" and "\r\n".
EOL(k) == IF k % 2 = 1 THEN <<"\n">> ELSE <<"\r", "\n">>

RECURSIVE joinLines(_, _)
joinLines(ls, k) ==
    IF k > Len(ls) THEN <<>>
    ELSE IF k = Len(ls) THEN ls[k]
    ELSE ls[k] \o EOL(k) \o joinLines(ls, k + 1)

ScenarioA == <<"L", "i", "k", "e", "l", "y", " ", "C", "o", "n", "d", "i", "t", "i", "o", "n",
               "s", ":", "\n", "-", " ", "*", "*", "H", "i", "g", "h", "*", "*", ":", " ", "F",
               "l", "u", " ", "-", " ", "f", "e", "v", "e", "r", " ", "a", "n", "d", " ", "c",
               "o", "u", "g", "h", "\n", "-", " ", "*", "*", "L", "o", "w", "*", "*", ":", " ",
               "C", "o", "l", "d">>
ScenarioACRLF ==
    <<"L", "i", "k", "e", "l", "y", " ", "C", "o", "n", "d", "i", "t", "i", "o", "n", "s", ":",
      "\r", "\n", "-", " ", "*", "*", "H", "i", "g", "h", "*", "*", ":", " ", "F", "l", "u",
      " ", "-", " ", "f", "e", "v", "e", "r", " ", "a", "n", "d", " ", "c", "o", "u", "g", "h",
      "\r", "\n", "-", " ", "*", "*", "L", "o", "w", "*", "*", ":", " ", "C", "o", "l", "d">>
ScenarioB == <<"T", "a", "k", "e", " ", "r", "e", "s", "t", " ", "a", "n", "d", " ", "d", "r",
               "i", "n", "k", " ", "w", "a", "t", "e", "r", ".">>
ScenarioC ==
    <<"*", "*", "S", "u", "m", "m", "a", "r", "y", ":", "*", "*", " ", "M", "i", "l", "d", " ",
      "i", "n", "f", "e", "c", "t", "i", "o", "n", "\n", "K", "e", "y", " ", "F", "i", "n", "d",
      "i", "n", "g", "s", ":", "\n", "-", " ", "E", "l", "e", "v", "a", "t", "e", "d", " ", "W",
      "B", "C", "\n", "D", "i", "a", "g", "n", "o", "s", "e", "s", ":", "\n", "-", " ", "V",
      "i", "r", "a", "l", " ", "i", "n", "f", "e", "c", "t", "i", "o", "n", " ", "(", "m", "e",
      "d", ")">>
ScenarioD == <<"L", "i", "k", "e", "l", "y", " ", "C", "o", "n", "d", "i", "t", "i", "o", "n",
               "s", ":", "\n", "-", " ", "*", "*", "M", "e", "d", "i", "u", "m", "*", "*", ":",
               " ", "M", "i", "g", "r", "a", "i", "n", "e">>
LabelOnlyScenario == <<"L", "i", "k", "e", "l", "y", " ", "c", "o", "n", "d", "i", "t", "i",
                       "o", "n", "s", "\n", "-", " ", "*", "*", "H", "i", "g", "h", "*", "*", ":">>
DisclaimerScenario == <<"D", "i", "s", "c", "l", "a", "i", "m", "e", "r", ":", "\n", "T", "h",
                        "i", "s", " ", "i", "s", " ", "f", "o", "r", "\n", "i", "n", "f", "o",
                        "r", "m", "a", "t", "i", "o", "n", " ", "o", "n", "l", "y", ".">>
MarkerInDisclaimerScenario == <<"D", "i", "s", "c", "l", "a", "i", "m", "e", "r", ":", "\n",
                                "T", "h", "i", "s", " ", "i", "s", " ", "f", "o", "r", "\n",
                                "-", "-", "-", "\n", "i", "n", "f", "o", "r", "m", "a", "t",
                                "i", "o", "n", " ", "o", "n", "l", "y", ".", "\n">>
AllSectionsScenario ==
    <<"O", "v", "e", "r", "v", "i", "e", "w", "\n", "F", "i", "n", "d", "i", "n", "g", "s", " ",
      "/", " ", "I", "m", "p", "r", "e", "s", "s", "i", "o", "n", "s", "\n", "-", " ", "A", "n",
      "e", "m", "i", "a", "\n", "M", "e", "d", "i", "c", "a", "t", "i", "o", "n", "s", ":",
      "\n", "-", " ", "I", "r", "o", "n", "\n", "F", "o", "l", "l", "o", "w", " ", "u", "p",
      "\n", "-", " ", "R", "e", "c", "h", "e", "c", "k", "\n", "D", "i", "s", "c", "l", "a",
      "i", "m", "e", "r", "\n", "N", "o", "t", " ", "a", "d", "v", "i", "c", "e">>

Scenarios(m) ==
    IF m = "prediction"
    THEN {ScenarioA, ScenarioACRLF, ScenarioB, ScenarioD, LabelOnlyScenario,
          DisclaimerScenario, MarkerInDisclaimerScenario}
    ELSE {ScenarioC, DisclaimerScenario, MarkerInDisclaimerScenario, AllSectionsScenario}

Alphabet(m) == IF m = "prediction" THEN PromptLines ELSE ReportLines

\* What a page can hand to its parser: nothing, or a response text.
Inputs(m) ==
    {Null, Undefined}
        \cup Scenarios(m)
        \cup {joinLines(ls, 1) : ls \in UNION {[1..n -> Alphabet(m)] : n \in 0..MaxLines}}

-----------------------------------------------------------------------------
(* State *)

\* const base = { ... } of buildStructuredResult
PredictionBase ==
    [introParagraphs |-> <<>>, conditions |-> <<>>, redFlags |-> <<>>,
     selfCare |-> <<>>, specialist |-> <<>>, disclaimer |-> <<>>]

\* const base = { ... } of buildReportStructure
ReportBase ==
    [summaryTitle |-> <<>>, intro |-> <<>>, findings |-> <<>>, diagnoses |-> <<>>,
     medications |-> <<>>, followups |-> <<>>, disclaimer |-> <<>>]

\* Mutant of falsy: rawText === "" in place of !rawText.
falsyEmptyStringOnly(v) == v = <<>>

\* !rawText
falsy(v) == v \in {Null, Undefined, <<>>}

\* Mutant of predictSwitch: the selfCare case pushes to redFlags.
predictSwitchWrongCase(b, sec, content) ==
    CASE sec = "redFlags"   -> [b EXCEPT !.redFlags = Append(@, content)]
      [] sec = "selfCare"   -> [b EXCEPT !.redFlags = Append(@, content)]
      [] sec = "specialist" -> [b EXCEPT !.specialist = Append(@, content)]
      [] sec = "disclaimer" -> [b EXCEPT !.disclaimer = @ \o content \o <<" ">>]
      [] OTHER              -> [b EXCEPT !.introParagraphs = Append(@, content)]

\* switch (section) of buildStructuredResult, the cases other than "conditions"
predictSwitch(b, sec, content) ==
    CASE sec = "redFlags"   -> [b EXCEPT !.redFlags = Append(@, content)]
      [] sec = "selfCare"   -> [b EXCEPT !.selfCare = Append(@, content)]
      [] sec = "specialist" -> [b EXCEPT !.specialist = Append(@, content)]
      [] sec = "disclaimer" -> [b EXCEPT !.disclaimer = @ \o content \o <<" ">>]
      [] OTHER              -> [b EXCEPT !.introParagraphs = Append(@, content)]

\* switch (section) of buildReportStructure
reportSwitch(b, sec, content) ==
    CASE sec = "findings"    -> [b EXCEPT !.findings = Append(@, content)]
      [] sec = "diagnoses"   -> [b EXCEPT !.diagnoses = Append(@, content)]
      [] sec = "medications" -> [b EXCEPT !.medications = Append(@, content)]
      [] sec = "followups"   -> [b EXCEPT !.followups = Append(@, content)]
      [] sec = "disclaimer"  -> [b EXCEPT !.disclaimer = @ \o content \o <<" ">>]
      [] OTHER               -> [b EXCEPT !.intro = Append(@, content)]

\* new Date().toLocaleString()
Now == <<"1", "1", "/", "3", "/", "2", "0", "2", "6", ",", " ", "1", "1", ":", "2", "0", ":",
         "2", "2", " ", "A", "M">>

\* useState(null): no file is selected.
NoFile == [null |-> TRUE]

\* The useState values of PromptPage at mount.
PromptPageState ==
    [symptoms |-> <<>>, result |-> <<>>, error |-> <<>>, isLoading |-> FALSE,
     timestamp |-> <<>>]

\* The useState values of ReportPage at mount; file is a record or Null.
ReportPageState ==
    [file |-> NoFile, notes |-> <<>>, status |-> <<>>, result |-> <<>>, error |-> <<>>,
     isLoading |-> FALSE, timestamp |-> <<>>]

\* The symptom form at load: textarea.value, submitBtn.disabled, the text in #results.
SymptomFormState == [symptoms |-> <<>>, disabled |-> FALSE, results |-> <<>>]

Init ==
    /\ page = "PromptPage"
    /\ ui = PromptPageState
    /\ calls = <<>>
    /\ late = FALSE
    /\ mode \in {"prediction", "report"}
    /\ rawText \in Inputs(mode)
    /\ lines = <<>>
    /\ pos = 1
    /\ section = "intro"
    /\ base = IF mode = "prediction" THEN PredictionBase ELSE ReportBase
    /\ returned = NoSection
    /\ pc = "start"

\* The line the loop is at.
InLoop == pc = "loop" /\ pos <= Len(lines)

-----------------------------------------------------------------------------
(* buildStructuredResult.  Each step of the function is an action; the       *)
(* definition named ...If is the condition under which the code takes it.    *)

PredictBeginIf == mode = "prediction" /\ pc = "start"

\* if (!rawText) return base; const lines = rawText.split(/\r?\n/);
\* Calling split on null or undefined throws a TypeError.
PredictBegin ==
    /\ PredictBeginIf
    /\ IF falsy(rawText) THEN pc' = "done" /\ lines' = lines
       ELSE IF rawText \in {Null, Undefined} THEN pc' = "threw" /\ lines' = lines
       ELSE pc' = "loop" /\ lines' = splitLines(rawText)
    /\ UNCHANGED <<mode, rawText, pos, section, base, returned, page, ui, calls, late>>

PredictSkipBlankIf ==
    /\ mode = "prediction" /\ InLoop
    /\ trim(lines[pos]) = <<>>

\* const trimmed = line.trim(); if (!trimmed) continue;
PredictSkipBlank ==
    /\ PredictSkipBlankIf
    /\ pos' = pos + 1
    /\ UNCHANGED <<mode, rawText, lines, section, base, returned, pc, page, ui, calls, late>>

PredictHeaderIf ==
    /\ mode = "prediction" /\ InLoop
    /\ trim(lines[pos]) # <<>>
    /\ resolveSection(trim(lines[pos])) # NoSection

\* Mutant of PredictHeader: the continue is missing, the header falls into the switch.
PredictHeaderFallsThrough ==
    /\ PredictHeaderIf
    /\ section' = resolveSection(trim(lines[pos]))
    /\ base' = predictSwitch(base, resolveSection(trim(lines[pos])),
                             cleanBullet(trim(lines[pos])))
    /\ pos' = pos + 1
    /\ UNCHANGED <<mode, rawText, lines, returned, pc, page, ui, calls, late>>

\* const newSection = resolveSection(trimmed);
\* if (newSection) { section = newSection; continue; }
PredictHeader ==
    /\ PredictHeaderIf
    /\ section' = resolveSection(trim(lines[pos]))
    /\ pos' = pos + 1
    /\ UNCHANGED <<mode, rawText, lines, base, returned, pc, page, ui, calls, late>>

PredictConditionLineIf ==
    /\ mode = "prediction" /\ InLoop
    /\ section = "conditions"
    /\ trim(lines[pos]) # <<>>
    /\ resolveSection(trim(lines[pos])) = NoSection

\* case "conditions": if (/^[-*\u2022\d]/.test(trimmed)) {
\*   const parsed = parseCondition(trimmed); if (parsed) base.conditions.push(parsed); }
PredictConditionLine ==
    /\ PredictConditionLineIf
    /\ LET trimmed == trim(lines[pos])
           parsed == parseCondition(trimmed)
       IN  base' = IF bulletPrefixed(trimmed) /\ parsed # NoCondition
                   THEN [base EXCEPT !.conditions = Append(@, parsed)]
                   ELSE base
    /\ pos' = pos + 1
    /\ UNCHANGED <<mode, rawText, lines, section, returned, pc, page, ui, calls, late>>

PredictContentLineIf ==
    /\ mode = "prediction" /\ InLoop
    /\ section # "conditions"
    /\ trim(lines[pos]) # <<>>
    /\ resolveSection(trim(lines[pos])) = NoSection

\* the other cases of switch (section)
PredictContentLine ==
    /\ PredictContentLineIf
    /\ base' = predictSwitch(base, section, cleanBullet(trim(lines[pos])))
    /\ pos' = pos + 1
    /\ UNCHANGED <<mode, rawText, lines, section, returned, pc, page, ui, calls, late>>

PredictReturnIf == mode = "prediction" /\ pc = "loop" /\ pos > Len(lines)

\* base.disclaimer = base.disclaimer.trim(); return base;
PredictReturn ==
    /\ PredictReturnIf
    /\ base' = [base EXCEPT !.disclaimer = trim(@)]
    /\ pc' = "done"
    /\ UNCHANGED <<mode, rawText, lines, pos, section, returned, page, ui, calls, late>>

-----------------------------------------------------------------------------
(* buildReportStructure *)

ReportBeginIf == mode = "report" /\ pc = "start"

\* if (!rawText) return base;
\* const lines = rawText.split(/\r?\n/).map((line) => line.trim());
ReportBegin ==
    /\ ReportBeginIf
    /\ IF falsy(rawText) THEN pc' = "done" /\ lines' = lines
       ELSE IF rawText \in {Null, Undefined} THEN pc' = "threw" /\ lines' = lines
       ELSE /\ pc' = "loop"
            /\ lines' = LET split == splitLines(rawText)
                        IN  [k \in 1..Len(split) |-> trim(split[k])]
    /\ UNCHANGED <<mode, rawText, pos, section, base, returned, page, ui, calls, late>>

ReportSkipBlankIf ==
    /\ mode = "report" /\ InLoop
    /\ lines[pos] = <<>>

\* if (!line) continue;
ReportSkipBlank ==
    /\ ReportSkipBlankIf
    /\ pos' = pos + 1
    /\ UNCHANGED <<mode, rawText, lines, section, base, returned, pc, page, ui, calls, late>>

ReportHeaderIf ==
    /\ mode = "report" /\ InLoop
    /\ lines[pos] # <<>>
    /\ resolveReportSection(lines[pos]) # NoSection

\* Mutant of ReportHeader: a summary line stores its title and leaves the active
\* section as it was.
ReportHeaderKeepsSection ==
    /\ ReportHeaderIf
    /\ LET line == lines[pos]
           newSection == resolveReportSection(line)
       IN  IF newSection = "summaryTitle"
           THEN /\ base' = [base EXCEPT !.summaryTitle = stripMarkers(line)]
                /\ section' = section
           ELSE /\ base' = base
                /\ section' = newSection
    /\ pos' = pos + 1
    /\ UNCHANGED <<mode, rawText, lines, returned, pc, page, ui, calls, late>>

\* if (newSection) { section = newSection;
\*   if (section === "summaryTitle") { base.summaryTitle = stripMarkers(line);
\*                                     section = "intro"; }
\*   continue; }
ReportHeader ==
    /\ ReportHeaderIf
    /\ LET line == lines[pos]
           newSection == resolveReportSection(line)
       IN  IF newSection = "summaryTitle"
           THEN /\ base' = [base EXCEPT !.summaryTitle = stripMarkers(line)]
                /\ section' = "intro"
           ELSE /\ base' = base
                /\ section' = newSection
    /\ pos' = pos + 1
    /\ UNCHANGED <<mode, rawText, lines, returned, pc, page, ui, calls, late>>

ReportSkipEmptyIf ==
    /\ mode = "report" /\ InLoop
    /\ lines[pos] # <<>>
    /\ resolveReportSection(lines[pos]) = NoSection
    /\ stripMarkers(lines[pos]) = <<>>

\* const content = stripMarkers(line); if (!content) continue;
ReportSkipEmpty ==
    /\ ReportSkipEmptyIf
    /\ pos' = pos + 1
    /\ UNCHANGED <<mode, rawText, lines, section, base, returned, pc, page, ui, calls, late>>

ReportContentLineIf ==
    /\ mode = "report" /\ InLoop
    /\ lines[pos] # <<>>
    /\ resolveReportSection(lines[pos]) = NoSection
    /\ stripMarkers(lines[pos]) # <<>>

\* switch (section)
ReportContentLine ==
    /\ ReportContentLineIf
    /\ base' = reportSwitch(base, section, stripMarkers(lines[pos]))
    /\ pos' = pos + 1
    /\ UNCHANGED <<mode, rawText, lines, section, returned, pc, page, ui, calls, late>>

ReportReturnIf == mode = "report" /\ pc = "loop" /\ pos > Len(lines)

\* base.disclaimer = base.disclaimer.trim(); return base;
ReportReturn ==
    /\ ReportReturnIf
    /\ base' = [base EXCEPT !.disclaimer = trim(@)]
    /\ pc' = "done"
    /\ UNCHANGED <<mode, rawText, lines, pos, section, returned, page, ui, calls, late>>

-----------------------------------------------------------------------------
(* The classifiers on their own: one call of resolveSection or of            *)
(* resolveReportSection on a trimmed, non-empty line.                        *)

\* The longest classified line, in pieces.
MaxPieces == 3

\* Pieces of a line given to resolveSection: its keywords whole and in parts, in
\* both cases, and filler.
PromptPieces ==
    { <<"l", "i", "k", "e", "l", "y", " ", "c", "o", "n", "d", "i", "t", "i", "o", "n",
        "s">>, <<"R", "e", "d", " ", "F", "l", "a", "g", "s">>, <<"s", "e", "l", "f">>, <<"c",
                                        "a", "r", "e">>, <<"M", "O", "N", "I", "T", "O",
                                        "R">>, <<"-">>, <<" ">>,
      <<"s", "p", "e", "c", "i", "a", "l", "i", "s", "t">>, <<"D", "o", "c", "t", "o",
                                        "r">>, <<"c", "l", "i", "n", "i", "c", "i", "a",
                                        "n">>, <<"d", "i", "s", "c", "l", "a", "i", "m", "e",
                                        "r">>, <<"x">> }

\* Pieces of a line given to resolveReportSection.
ReportPieces ==
    { <<"*", "*">>, <<"S", "u", "m", "m", "a", "r", "y">>, <<"k", "e", "y", " ", "f", "i", "n",
                                        "d", "i", "n", "g", "s">>, <<"I", "m", "p", "r", "e",
                                        "s", "s", "i", "o", "n", "s">>, <<"d", "i", "a", "g",
                                        "n", "o", "s", "e", "s">>, <<"d", "i", "f", "f", "e",
                                        "r", "e", "n", "t", "i", "a", "l">>,
      <<"m", "e", "d", "i", "c", "a", "t", "i", "o", "n", "s">>, <<"L", "A", "B", "S">>, <<"f",
                                        "o", "l", "l", "o", "w">>, <<"u",
                                        "p">>, <<"-">>, <<" ">>, <<"d", "i", "s", "c", "l", "a",
                                        "i", "m", "e", "r">>, <<"x">> }

RECURSIVE concat(_)
concat(pieces) == IF pieces = <<>> THEN <<>> ELSE Head(pieces) \o concat(Tail(pieces))

ClassifierLines(pieces) ==
    {l \in {concat(ps) : ps \in UNION {[1..n -> pieces] : n \in 1..MaxPieces}} :
        l # <<>> /\ trim(l) = l}

ClassifyInit ==
    /\ page = "PromptPage"
    /\ ui = PromptPageState
    /\ calls = <<>>
    /\ late = FALSE
    /\ mode \in {"resolveSection", "resolveReportSection"}
    /\ rawText \in ClassifierLines(IF mode = "resolveSection" THEN PromptPieces
                                    ELSE ReportPieces)
    /\ lines = <<>>
    /\ pos = 1
    /\ section = "intro"
    /\ base = PredictionBase
    /\ returned = NoSection
    /\ pc = "call"

\* const newSection = resolveSection(trimmed);
ResolveSectionCall ==
    /\ mode = "resolveSection" /\ pc = "call"
    /\ returned' = resolveSection(rawText)
    /\ pc' = "return"
    /\ UNCHANGED <<mode, rawText, lines, pos, section, base, page, ui, calls, late>>

\* const newSection = resolveReportSection(line);
ResolveReportSectionCall ==
    /\ mode = "resolveReportSection" /\ pc = "call"
    /\ returned' = resolveReportSection(rawText)
    /\ pc' = "return"
    /\ UNCHANGED <<mode, rawText, lines, pos, section, base, page, ui, calls, late>>

ClassifyNext == ResolveSectionCall \/ ResolveReportSectionCall

ClassifySpec == ClassifyInit /\ [][ClassifyNext]_vars

-----------------------------------------------------------------------------
(* mapConfidence and cleanBullet on their own: one call on a string made of  *)
(* at most MaxPieces pieces.                                                 *)

\* Pieces of a confidence label: the three keywords in both cases, whole and cut,
\* and filler.
LabelPieces ==
    { <<"h", "i", "g", "h">>, <<"H", "I", "G", "H">>, <<"h", "i">>, <<"g", "h">>, <<"m", "e",
                                        "d">>, <<"M", "e", "d", "i", "u", "m">>, <<"l", "o",
                                        "w">>, <<"L", "O", "W">>, <<"l",
                                        "o">>, <<"w">>, <<" ">>, <<"x">> }

\* Pieces of a line given to cleanBullet: every character of its leading class,
\* white space of several kinds, and text.
BulletPieces ==
    { <<"-">>, <<"*">>, <<BulletGlyph>>, <<"1">>, <<".">>, <<")">>, <<" ">>, <<"\t">>, <<"\n">>, <<"a">>, <<"b", " ", " ", "c">>, <<"R", "e", "s", "t", " ", "-", " ", "2", ")", " ">> }

Strings(pieces) == {concat(ps) : ps \in UNION {[1..n -> pieces] : n \in 0..MaxPieces}}

PureInit ==
    /\ page = "PromptPage"
    /\ ui = PromptPageState
    /\ calls = <<>>
    /\ late = FALSE
    /\ mode \in {"mapConfidence", "cleanBullet"}
    /\ rawText \in Strings(IF mode = "mapConfidence" THEN LabelPieces ELSE BulletPieces)
    /\ lines = <<>>
    /\ pos = 1
    /\ section = "intro"
    /\ base = PredictionBase
    /\ returned = NoSection
    /\ pc = "call"

\* confidencePercent: mapConfidence(label)
MapConfidenceCall ==
    /\ mode = "mapConfidence" /\ pc = "call"
    /\ returned' = mapConfidence(rawText)
    /\ pc' = "return"
    /\ UNCHANGED <<mode, rawText, lines, pos, section, base, page, ui, calls, late>>

\* cleanBullet(trimmed)
CleanBulletCall ==
    /\ mode = "cleanBullet" /\ pc = "call"
    /\ returned' = cleanBullet(rawText)
    /\ pc' = "return"
    /\ UNCHANGED <<mode, rawText, lines, pos, section, base, page, ui, calls, late>>

PureNext == MapConfidenceCall \/ CleanBulletCall

PureSpec == PureInit /\ [][PureNext]_vars

-----------------------------------------------------------------------------

Next ==
    \/ PredictBegin
    \/ PredictSkipBlank
    \/ PredictHeader
    \/ PredictConditionLine
    \/ PredictContentLine
    \/ PredictReturn
    \/ ReportBegin
    \/ ReportSkipBlank
    \/ ReportHeader
    \/ ReportSkipEmpty
    \/ ReportContentLine
    \/ ReportReturn

Spec == Init /\ [][Next]_vars

-----------------------------------------------------------------------------
(* The backend: POST /api/predict and POST /api/analyze-report.  A response  *)
(* is its status, whether its body is JSON, and the JSON object.             *)

\* {} : the payload of a body that is not JSON.
EmptyObject == [empty |-> TRUE]

Json(status, body) == [status |-> status, json |-> TRUE, body |-> body]

\* The page of express's default error handler: a status and an HTML body.
Html(status) == [status |-> status, json |-> FALSE, body |-> EmptyObject]

NoResponse == [status |-> 0, json |-> FALSE, body |-> EmptyObject]

\* response.ok
ok(response) == response.status \in 200..299

\* What the call of the Gemini endpoint does: it returns text, returns no text,
\* answers with a non-OK status, answers with a body that is not JSON, or throws.
Upstream == {"text", "noText", "nonOk", "badJson", "throws"}

\* What is in the uploaded file: text, nothing, or bytes the parser cannot read.
Contents == {"text", "empty", "unreadable"}

GeminiText == <<"L", "i", "k", "e", "l", "y", " ", "C", "o", "n", "d", "i", "t", "i", "o", "n",
                "s", ":", "\n", "-", " ", "*", "*", "H", "i", "g", "h", "*", "*", ":", " ", "F",
                "l", "u", " ", "-", " ", "f", "e", "v", "e", "r", " ", "a", "n", "d", " ", "c",
                "o", "u", "g", "h">>

\* error.message of what fetch or response.json() throws in the backend.
thrownMessage(upstream) ==
    IF upstream = "throws" THEN <<"r", "e", "q", "u", "e", "s", "t", " ", "t", "o", " ", "g",
                                  "e", "n", "e", "r", "a", "t", "i", "v", "e", "l", "a", "n",
                                  "g", "u", "a", "g", "e", ".", "g", "o", "o", "g", "l", "e",
                                  "a", "p", "i", "s", ".", "c", "o", "m", " ", "f", "a", "i",
                                  "l", "e", "d">>
    ELSE <<"i", "n", "v", "a", "l", "i", "d", " ", "j", "s", "o", "n", " ", "r", "e", "s", "p",
           "o", "n", "s", "e", " ", "b", "o", "d", "y">>

\* Mutant of predict: the failure of the Gemini call is answered with status 200.
predictAnswersOk(symptoms, upstream) ==
    IF upstream \in {"text", "noText"} THEN Json(200, [result |-> GeminiText])
    ELSE Json(200, [error |-> <<"G", "e", "m", "i", "n", "i", " ", "A", "P", "I", " ", "r", "e",
                                "q", "u", "e", "s", "t", " ", "f", "a", "i", "l", "e", "d", ".">>])

\* app.post("/api/predict", ...)
predict(symptoms, upstream) ==
    IF trim(symptoms) = <<>>
    THEN Json(400, [error |-> <<"S", "y", "m", "p", "t", "o", "m", "s", " ", "d", "e", "s", "c",
                                "r", "i", "p", "t", "i", "o", "n", " ", "i", "s", " ", "r", "e",
                                "q", "u", "i", "r", "e", "d", ".">>])
    ELSE IF upstream \in {"throws", "badJson"}
    THEN Json(500, [error |-> <<"I", "n", "t", "e", "r", "n", "a", "l", " ", "s", "e", "r", "v",
                                "e", "r", " ", "e", "r", "r", "o", "r", ".">>])
    ELSE IF upstream = "nonOk"
    THEN Json(502, [error |-> <<"G", "e", "m", "i", "n", "i", " ", "A", "P", "I", " ", "r", "e",
                                "q", "u", "e", "s", "t", " ", "f", "a", "i", "l", "e", "d",
                                ".">>, status |-> 503,
                    details |-> <<"S", "e", "r", "v", "i", "c", "e", " ", "U", "n", "a", "v",
                                  "a", "i", "l", "a", "b", "l", "e">>])
    ELSE IF upstream = "noText"
    THEN Json(200, [result |-> <<"G", "e", "m", "i", "n", "i", " ", "d", "i", "d", " ", "n",
                                 "o", "t", " ", "r", "e", "t", "u", "r", "n", " ", "a", "n",
                                 "y", " ", "t", "e", "x", "t", ".", " ", "A", "d", "j", "u",
                                 "s", "t", " ", "t", "h", "e", " ", "d", "e", "s", "c", "r",
                                 "i", "p", "t", "i", "o", "n", " ", "(", "a", "v", "o", "i",
                                 "d", " ", "p", "e", "r", "s", "o", "n", "a", "l", " ", "d",
                                 "a", "t", "a", ")", " ", "a", "n", "d", " ", "t", "r", "y",
                                 " ", "a", "g", "a", "i", "n", ".">>])
    ELSE Json(200, [result |-> GeminiText])

\* extractReportText(file): what it returns, or the message of what it throws.
extractReportText(file, content) ==
    IF file.type = <<"a", "p", "p", "l", "i", "c", "a", "t", "i", "o", "n", "/", "p", "d", "f">>
    THEN IF content = "unreadable"
         THEN [threw |-> TRUE, value |-> <<"U", "n", "a", "b", "l", "e", " ", "t", "o", " ",
                                        "r", "e", "a", "d", " ", "P", "D", "F", " ", "c", "o",
                                        "n", "t", "e", "n", "t", "s", ".", " ", "T", "h", "e",
                                        " ", "f", "i", "l", "e", " ", "m", "a", "y", " ", "b",
                                        "e", " ", "s", "c", "a", "n", "n", "e", "d", ",", " ",
                                        "e", "n", "c", "r", "y", "p", "t", "e", "d", ",", " ",
                                        "o", "r", " ", "c", "o", "r", "r", "u", "p", "t", "e",
                                        "d", ".">>]
         ELSE [threw |-> FALSE, value |-> IF content = "empty" THEN <<>> ELSE <<"W", "B", "C",
                                        " ", "1", "4", ".", "2", " ", "(", "h", "i", "g", "h",
                                        ")">>]
    ELSE IF At(file.type, <<"t", "e", "x", "t", "/">>, 1)
    THEN [threw |-> FALSE, value |-> IF content = "empty" THEN <<" ", "\n">> ELSE <<"W", "B",
                                        "C", " ", "1", "4", ".", "2", " ", "(", "h", "i", "g",
                                        "h", ")">>]
    ELSE [threw |-> TRUE, value |-> <<"U", "n", "s", "u", "p", "p", "o", "r", "t", "e", "d",
                                      " ", "f", "i", "l", "e", " ", "t", "y", "p", "e", ".",
                                      " ", "P", "l", "e", "a", "s", "e", " ", "u", "p", "l",
                                      "o", "a", "d", " ", "P", "D", "F", " ", "o", "r", " ",
                                      "t", "e", "x", "t", " ", "f", "i", "l", "e", "s", ".">>]

\* The catch block of /api/analyze-report.
analysisFailure(thrown) ==
    LET message == IF thrown # <<>> THEN thrown
                   ELSE <<"F", "a", "i", "l", "e", "d", " ", "t", "o", " ", "a", "n", "a", "l",
                          "y", "z", "e", " ", "r", "e", "p", "o", "r", "t", ".", " ", "P", "l",
                          "e", "a", "s", "e", " ", "t", "r", "y", " ", "a", " ", "d", "i", "f",
                          "f", "e", "r", "e", "n", "t", " ", "f", "i", "l", "e", ".">>
        statusCode == IF includes(message, <<"U", "n", "a", "b", "l", "e", " ", "t", "o", " ",
                                        "r", "e", "a", "d", " ", "P", "D",
                                        "F">>) \/ includes(message, <<"r", "e", "q", "u", "i",
                                        "r", "e", "d">>)
                      THEN 422 ELSE 500
    IN  Json(statusCode, [error |-> message])

\* app.post("/api/analyze-report", upload.single("report"), ...)
analyzeReport(file, content, upstream) ==
    IF file = NoFile THEN Json(400, [error |-> <<"R", "e", "p", "o", "r", "t", " ", "f", "i",
                                        "l", "e", " ", "i", "s", " ", "r", "e", "q", "u", "i",
                                        "r", "e", "d", ".">>])
    ELSE LET reportText == extractReportText(file, content)
         IN  IF reportText.threw THEN analysisFailure(reportText.value)
             ELSE IF trim(reportText.value) = <<>>
             THEN Json(400, [error |-> <<"U", "n", "a", "b", "l", "e", " ", "t", "o", " ", "r",
                                        "e", "a", "d", " ", "c", "o", "n", "t", "e", "n", "t",
                                        " ", "f", "r", "o", "m", " ", "t", "h", "e", " ", "u",
                                        "p", "l", "o", "a", "d", "e", "d", " ", "r", "e", "p",
                                        "o", "r", "t", ".">>])
             ELSE IF upstream \in {"throws", "badJson"}
             THEN analysisFailure(thrownMessage(upstream))
             ELSE IF upstream = "nonOk"
             THEN Json(502, [error |-> <<"G", "e", "m", "i", "n", "i", " ", "A", "P", "I", " ",
                                        "r", "e", "q", "u", "e", "s", "t", " ", "f", "a", "i",
                                        "l", "e", "d", ".">>, status |-> 503,
                             details |-> <<"S", "e", "r", "v", "i", "c", "e", " ", "U", "n",
                                        "a", "v", "a", "i", "l", "a", "b", "l", "e">>])
             ELSE IF upstream = "noText"
             THEN Json(200, [result |-> <<"G", "e", "m", "i", "n", "i", " ", "d", "i", "d", " ",
                                        "n", "o", "t", " ", "r", "e", "t", "u", "r", "n", " ",
                                        "a", "n", "y", " ", "s", "u", "m", "m", "a", "r", "y",
                                        " ", "t", "e", "x", "t", ".", " ", "P", "l", "e", "a",
                                        "s", "e", " ", "t", "r", "y", " ", "a", " ", "s", "h",
                                        "o", "r", "t", "e", "r", " ", "r", "e", "p", "o", "r",
                                        "t", " ", "o", "r", " ", "a", "d", "d", " ", "c", "l",
                                        "a", "r", "i", "f", "y", "i", "n", "g", " ", "n", "o",
                                        "t", "e", "s", ".">>])
             ELSE Json(200, [result |-> GeminiText])

-----------------------------------------------------------------------------
(* The pages.  One page is mounted; ui is its state.  An invocation of its   *)
(* submit handler that awaits is a record of calls: at stage "fetch" it      *)
(* awaits the response, at stage "json" the body of the response.            *)

\* The most invocations of a submit handler that await at a time.
MaxCalls == 2

\* What the user types into the symptoms box.
SymptomValues == {<<>>, <<" ">>, <<"f", "e", "v", "e", "r", " ", "f", "o", "r", " ", "3", " ",
                                   "d", "a", "y", "s">>}

\* What the user types into the notes box.
NoteValues == {<<>>, <<"p", "o", "s", "t", "-", "o", "p">>}

\* The files the user can pick: name, MIME type and size in bytes.
Files ==
    { [name |-> <<"l", "a", "b", "s", ".", "p", "d", "f">>, type |-> <<"a", "p", "p", "l", "i",
                                        "c", "a", "t", "i", "o", "n", "/", "p", "d",
                                        "f">>, size |-> 1536],
      [name |-> <<"n", "o", "t", "e", "s", ".", "t", "x", "t">>, type |-> <<"t", "e", "x", "t",
                                        "/", "p", "l", "a", "i", "n">>, size |-> 2048],
      [name |-> <<"s", "c", "a", "n", ".", "p", "n", "g">>, type |-> <<"i", "m", "a", "g", "e",
                                        "/", "p", "n", "g">>, size |-> 1024] }

ACCEPTED_TYPES == {<<"a", "p", "p", "l", "i", "c", "a", "t", "i", "o", "n", "/", "p", "d",
                     "f">>, <<"t", "e", "x", "t", "/", "p", "l", "a", "i", "n">>}

\* ${n} in a template literal, n a natural number.
RECURSIVE toString(_)
toString(n) ==
    LET digit == <<"0", "1", "2", "3", "4", "5", "6", "7", "8", "9">>[(n % 10) + 1]
    IN  IF n < 10 THEN <<digit>> ELSE toString(n \div 10) \o <<digit>>

\* (size / 1024).toFixed(1)
toFixed1(size) ==
    LET tenths == (size * 10 + 512) \div 1024
    IN  toString(tenths \div 10) \o <<".">> \o toString(tenths % 10)

\* A new invocation of a submit handler, at its await fetch(...).
Call(request) == [stage |-> "fetch", request |-> request, cause |-> "", response |-> NoResponse]

\* The invocation once the backend has answered; cause is what happened upstream.
Answered(call, cause, response) ==
    [call EXCEPT !.stage = "json", !.cause = cause, !.response = response]

Without(i) == [j \in 1..(Len(calls) - 1) |-> IF j < i THEN calls[j] ELSE calls[j + 1]]

\* const payload = await response.json().catch(() => ({}));
payloadOf(response) == IF response.json THEN response.body ELSE EmptyObject

\* payload?.error || fallback
errorOr(payload, fallback) ==
    IF "error" \in DOMAIN payload /\ payload.error # <<>> THEN payload.error ELSE fallback

\* payload.result ?? fallback
resultOr(payload, fallback) ==
    IF "result" \in DOMAIN payload THEN payload.result ELSE fallback

\* Mutant of submitDisabled: the submit control is never disabled.
submitEnabledAlways(p, s) == FALSE

\* <button type="submit" disabled={isLoading}>, submitBtn.disabled
submitDisabled(p, s) == IF p = "SymptomForm" THEN s.disabled ELSE s.isLoading

\* A user action on a page with a pending request has changed the page since.
UserActed == late' = (late \/ calls # <<>>)

ParserIdle == UNCHANGED <<mode, rawText, lines, pos, section, base, returned, pc>>

PageInit ==
    /\ page \in {"PromptPage", "ReportPage", "SymptomForm"}
    /\ ui = CASE page = "PromptPage" -> PromptPageState
               [] page = "ReportPage" -> ReportPageState
               [] OTHER -> SymptomFormState
    /\ calls = <<>>
    /\ late = FALSE
    /\ mode = "page"
    /\ rawText = <<>>
    /\ lines = <<>>
    /\ pos = 1
    /\ section = "intro"
    /\ base = PredictionBase
    /\ returned = NoSection
    /\ pc = "page"

-----------------------------------------------------------------------------
(* PromptPage *)

\* onChange={(event) => setSymptoms(event.target.value)} disabled={isLoading}
PromptPage_setSymptoms ==
    /\ page = "PromptPage" /\ ~ui.isLoading
    /\ \E value \in SymptomValues : ui' = [ui EXCEPT !.symptoms = value]
    /\ UserActed
    /\ UNCHANGED <<page, calls>> /\ ParserIdle

\* handleSubmit up to its await.  The textarea is required, so the browser submits
\* no empty value; white space passes that test.
PromptPage_handleSubmit ==
    /\ page = "PromptPage" /\ ~submitDisabled(page, ui) /\ ui.symptoms # <<>>
    /\ Len(calls) < MaxCalls
    /\ IF trim(ui.symptoms) = <<>>
       THEN /\ ui' = [ui EXCEPT !.error = <<"P", "l", "e", "a", "s", "e", " ", "d", "e", "s",
                                        "c", "r", "i", "b", "e", " ", "a", "t", " ", "l", "e",
                                        "a", "s", "t", " ", "o", "n", "e", " ", "s", "y", "m",
                                        "p", "t", "o", "m", ".">>]
            /\ UserActed
            /\ calls' = calls
       ELSE /\ ui' = [ui EXCEPT !.isLoading = TRUE, !.result = <<>>, !.error = <<>>]
            /\ calls' = Append(calls, Call([symptoms |-> ui.symptoms]))
            /\ late' = FALSE
    /\ UNCHANGED page /\ ParserIdle

\* The backend answers the request of an invocation; express.json() refuses a body
\* over its size limit with the page of the default error handler.
PredictEndpoint ==
    /\ page = "PromptPage"
    /\ \E i \in 1..Len(calls) :
          /\ calls[i].stage = "fetch"
          /\ \/ \E upstream \in Upstream :
                   calls' = [calls EXCEPT ![i] =
                       Answered(@, upstream, predict(@.request.symptoms, upstream))]
             \/ calls' = [calls EXCEPT ![i] = Answered(@, "tooLarge", Html(413))]
    /\ UNCHANGED <<page, ui, late>> /\ ParserIdle

\* Mutant of PromptPage_settle: without the finally block.
PromptPage_settleStaysLoading ==
    /\ page = "PromptPage"
    /\ \E i \in 1..Len(calls) :
          /\ calls[i].stage = "json"
          /\ ui' = IF ok(calls[i].response)
                   THEN [ui EXCEPT !.result = GeminiText, !.timestamp = Now]
                   ELSE [ui EXCEPT !.error = <<"P", "r", "e", "d", "i", "c", "t", "i", "o", "n",
                                        " ", "f", "a", "i", "l", "e", "d", ".">>]
          /\ calls' = Without(i)
    /\ UNCHANGED <<page, late>> /\ ParserIdle

\* handleSubmit from the body of the response to its end.
PromptPage_settle ==
    /\ page = "PromptPage"
    /\ \E i \in 1..Len(calls) :
          LET response == calls[i].response
              payload == payloadOf(response)
          IN  /\ calls[i].stage = "json"
              /\ ui' = IF ~ok(response)
                       THEN [ui EXCEPT
                               !.error = errorOr(payload, <<"P", "r", "e", "d", "i", "c", "t",
                                        "i", "o", "n", " ", "f", "a", "i", "l", "e", "d", " ",
                                        "(", "s", "t", "a", "t", "u", "s", " ">>
                                   \o toString(response.status) \o <<")", ".", " ", "T", "r",
                                        "y", " ", "a", "g", "a", "i", "n", ".">>),
                               !.isLoading = FALSE]
                       ELSE [ui EXCEPT
                               !.result = resultOr(payload, <<"N", "o", " ", "r", "e", "s", "p",
                                        "o", "n", "s", "e", " ", "g", "e", "n", "e", "r", "a",
                                        "t", "e", "d", ".", " ", "P", "l", "e", "a", "s", "e",
                                        " ", "t", "r", "y", " ", "a", "g", "a", "i", "n", ".">>),
                               !.timestamp = Now,
                               !.isLoading = FALSE]
              /\ calls' = Without(i)
    /\ UNCHANGED <<page, late>> /\ ParserIdle

\* fetch rejects: handleSubmit goes to its catch and its finally.
PromptPage_fetchRejects ==
    /\ page = "PromptPage"
    /\ \E i \in 1..Len(calls) :
          /\ calls[i].stage = "fetch"
          /\ ui' = [ui EXCEPT !.error = <<"F", "a", "i", "l", "e", "d", " ", "t", "o", " ", "f",
                                        "e", "t", "c", "h">>, !.isLoading = FALSE]
          /\ calls' = Without(i)
    /\ UNCHANGED <<page, late>> /\ ParserIdle

\* resetForm; Clear is disabled={!symptoms || isLoading}
PromptPage_resetForm ==
    /\ page = "PromptPage" /\ ~(ui.symptoms = <<>> \/ ui.isLoading)
    /\ ui' = [ui EXCEPT !.symptoms = <<>>, !.result = <<>>, !.error = <<>>,
                        !.timestamp = <<>>]
    /\ UserActed
    /\ UNCHANGED <<page, calls>> /\ ParserIdle

-----------------------------------------------------------------------------
(* ReportPage *)

\* handleFileChange; the file input is disabled={isLoading}
ReportPage_handleFileChange ==
    /\ page = "ReportPage" /\ ~ui.isLoading
    /\ \E selected \in Files \cup {NoFile} :
          ui' = IF selected = NoFile
                THEN [ui EXCEPT !.file = NoFile, !.status = <<>>]
                ELSE IF selected.type \notin ACCEPTED_TYPES
                THEN [ui EXCEPT !.error = <<"O", "n", "l", "y", " ", "P", "D", "F", " ", "o",
                                        "r", " ", "p", "l", "a", "i", "n", " ", "t", "e", "x",
                                        "t", " ", "f", "i", "l", "e", "s", " ", "a", "r", "e",
                                        " ", "s", "u", "p", "p", "o", "r", "t", "e", "d", ".">>,
                                !.file = NoFile, !.status = <<>>]
                ELSE [ui EXCEPT !.error = <<>>, !.file = selected,
                                !.status = selected.name \o <<" ",
                                        BulletGlyph, " ">> \o toFixed1(selected.size)
                                              \o <<" ", "K", "B">>]
    /\ UserActed
    /\ UNCHANGED <<page, calls>> /\ ParserIdle

\* onChange={(event) => setNotes(event.target.value)} disabled={isLoading}
ReportPage_setNotes ==
    /\ page = "ReportPage" /\ ~ui.isLoading
    /\ \E value \in NoteValues : ui' = [ui EXCEPT !.notes = value]
    /\ UserActed
    /\ UNCHANGED <<page, calls>> /\ ParserIdle

\* Mutant of ReportPage_resetForm: Reset also abandons the pending request.
ReportPage_resetFormCancels ==
    /\ page = "ReportPage" /\ ~(ui.isLoading /\ ui.file = NoFile /\ ui.notes = <<>>)
    /\ ui' = [ReportPageState EXCEPT !.isLoading = FALSE]
    /\ calls' = <<>>
    /\ UserActed
    /\ UNCHANGED page /\ ParserIdle

\* resetForm; Reset is disabled={isLoading && !file && !notes}
ReportPage_resetForm ==
    /\ page = "ReportPage" /\ ~(ui.isLoading /\ ui.file = NoFile /\ ui.notes = <<>>)
    /\ ui' = [ui EXCEPT !.file = NoFile, !.notes = <<>>, !.result = <<>>, !.error = <<>>,
                        !.status = <<>>, !.timestamp = <<>>]
    /\ UserActed
    /\ UNCHANGED <<page, calls>> /\ ParserIdle

\* handleSubmit up to its await
ReportPage_handleSubmit ==
    /\ page = "ReportPage" /\ ~submitDisabled(page, ui)
    /\ Len(calls) < MaxCalls
    /\ IF ui.file = NoFile
       THEN /\ ui' = [ui EXCEPT !.error = <<"U", "p", "l", "o", "a", "d", " ", "a", " ", "r",
                                        "e", "p", "o", "r", "t", " ", "f", "i", "l", "e", " ",
                                        "f", "i", "r", "s", "t", ".">>]
            /\ UserActed
            /\ calls' = calls
       ELSE /\ ui' = [ui EXCEPT !.isLoading = TRUE, !.error = <<>>, !.result = <<>>]
            /\ calls' = Append(calls, Call([report |-> ui.file, notes |-> trim(ui.notes)]))
            /\ late' = FALSE
    /\ UNCHANGED page /\ ParserIdle

\* The backend answers the request of an invocation; multer refuses a file over
\* its size limit with the page of the default error handler.
AnalyzeReportEndpoint ==
    /\ page = "ReportPage"
    /\ \E i \in 1..Len(calls) :
          /\ calls[i].stage = "fetch"
          /\ \/ \E content \in Contents, upstream \in Upstream :
                   LET reportText == extractReportText(calls[i].request.report, content)
                       cause == IF reportText.threw THEN "extraction"
                                ELSE IF trim(reportText.value) = <<>> THEN "emptyText"
                                ELSE upstream
                   IN  calls' = [calls EXCEPT ![i] =
                           Answered(@, cause, analyzeReport(@.request.report, content, upstream))]
             \/ calls' = [calls EXCEPT ![i] = Answered(@, "tooLarge", Html(500))]
    /\ UNCHANGED <<page, ui, late>> /\ ParserIdle

\* handleSubmit from the body of the response to its end.
ReportPage_settle ==
    /\ page = "ReportPage"
    /\ \E i \in 1..Len(calls) :
          LET response == calls[i].response
              payload == payloadOf(response)
          IN  /\ calls[i].stage = "json"
              /\ ui' = IF ~ok(response)
                       THEN [ui EXCEPT
                               !.error = errorOr(payload, <<"R", "e", "p", "o", "r", "t", " ",
                                        "a", "n", "a", "l", "y", "s", "i", "s", " ", "f", "a",
                                        "i", "l", "e", "d", " ", "(", "s", "t", "a", "t", "u",
                                        "s", " ">>
                                   \o toString(response.status) \o <<")", ".">>),
                               !.isLoading = FALSE]
                       ELSE [ui EXCEPT
                               !.result = resultOr(payload, <<"N", "o", " ", "s", "u", "m", "m",
                                        "a", "r", "y", " ", "r", "e", "t", "u", "r", "n", "e",
                                        "d", ".", " ", "T", "r", "y", " ", "a", "g", "a", "i",
                                        "n", ".">>),
                               !.timestamp = Now,
                               !.isLoading = FALSE]
              /\ calls' = Without(i)
    /\ UNCHANGED <<page, late>> /\ ParserIdle

\* fetch rejects: handleSubmit goes to its catch and its finally.
ReportPage_fetchRejects ==
    /\ page = "ReportPage"
    /\ \E i \in 1..Len(calls) :
          /\ calls[i].stage = "fetch"
          /\ ui' = [ui EXCEPT !.error = <<"F", "a", "i", "l", "e", "d", " ", "t", "o", " ", "f",
                                        "e", "t", "c", "h">>, !.isLoading = FALSE]
          /\ calls' = Without(i)
    /\ UNCHANGED <<page, late>> /\ ParserIdle

-----------------------------------------------------------------------------
(* The symptom form of unnamed/part_000, which calls the Gemini endpoint     *)
(* itself.  ui.results is the text last given to renderResult.               *)

\* The user edits the textarea, which is never disabled.
SymptomForm_input ==
    /\ page = "SymptomForm"
    /\ \E value \in SymptomValues : ui' = [ui EXCEPT !.symptoms = value]
    /\ UserActed
    /\ UNCHANGED <<page, calls>> /\ ParserIdle

\* The submit listener up to its await; a disabled submit button submits nothing.
SymptomForm_submit ==
    /\ page = "SymptomForm" /\ ~submitDisabled(page, ui)
    /\ Len(calls) < MaxCalls
    /\ IF trim(ui.symptoms) = <<>>
       THEN UNCHANGED <<ui, calls, late>>
       ELSE /\ ui' = [ui EXCEPT !.disabled = TRUE]
            /\ calls' = Append(calls, Call([symptoms |-> trim(ui.symptoms)]))
            /\ late' = FALSE
    /\ UNCHANGED page /\ ParserIdle

\* The Gemini endpoint answers.
GeminiEndpoint ==
    /\ page = "SymptomForm"
    /\ \E i \in 1..Len(calls), upstream \in Upstream \ {"throws"} :
          /\ calls[i].stage = "fetch"
          /\ calls' = [calls EXCEPT ![i] = Answered(@, upstream,
                CASE upstream = "text" ->
                        Json(200, [candidates |-> <<[content |-> [parts |-> <<[text |-> GeminiText]>>]]>>])
                  [] upstream = "noText" -> Json(200, [candidates |-> <<>>])
                  [] upstream = "nonOk" -> Json(503, [error |-> [code |-> 503]])
                  [] OTHER -> Html(200))]
    /\ UNCHANGED <<page, ui, late>> /\ ParserIdle

\* The submit listener from the response to its end: renderResult, setLoading(false).
SymptomForm_settle ==
    /\ page = "SymptomForm"
    /\ \E i \in 1..Len(calls) :
          LET response == calls[i].response
              data == response.body
              answer == IF "candidates" \in DOMAIN data /\ data.candidates # <<>>
                        THEN data.candidates[1].content.parts[1].text
                        ELSE <<"N", "o", " ", "r", "e", "s", "p", "o", "n", "s", "e", " ", "r",
                               "e", "t", "u", "r", "n", "e", "d", ".", " ", "P", "l", "e", "a",
                               "s", "e", " ", "t", "r", "y", " ", "a", "g", "a", "i", "n", ".">>
              details == IF ~ok(response)
                         THEN <<"G", "e", "m", "i", "n", "i", " ", "A", "P", "I", " ", "e", "r",
                                "r", "o", "r", " ", "(">> \o toString(response.status) \o <<")">>
                         ELSE <<"U", "n", "e", "x", "p", "e", "c", "t", "e", "d", " ", "t", "o",
                                "k", "e", "n", " ", "<", " ", "i", "n", " ", "J", "S", "O", "N",
                                " ", "a", "t", " ", "p", "o", "s", "i", "t", "i", "o", "n", " ",
                                "0">>
          IN  /\ calls[i].stage = "json"
              /\ ui' = [ui EXCEPT
                          !.results = IF ok(response) /\ response.json THEN answer
                                      ELSE <<"U", "n", "a", "b", "l", "e", " ", "t", "o", " ",
                                        "g", "e", "n", "e", "r", "a", "t", "e", " ", "p", "r",
                                        "e", "d", "i", "c", "t", "i", "o", "n", " ", "r", "i",
                                        "g", "h", "t", " ", "n", "o", "w", ".", "\n", "\n", "D",
                                        "e", "t", "a", "i", "l", "s", ":", " ">>
                                              \o details,
                          !.disabled = FALSE]
              /\ calls' = Without(i)
    /\ UNCHANGED <<page, late>> /\ ParserIdle

\* fetch rejects: the listener goes to its catch and its finally.
SymptomForm_fetchRejects ==
    /\ page = "SymptomForm"
    /\ \E i \in 1..Len(calls) :
          /\ calls[i].stage = "fetch"
          /\ ui' = [ui EXCEPT
                      !.results = <<"U", "n", "a", "b", "l", "e", " ", "t", "o", " ", "g", "e",
                                    "n", "e", "r", "a", "t", "e", " ", "p", "r", "e", "d", "i",
                                    "c", "t", "i", "o", "n", " ", "r", "i", "g", "h", "t", " ",
                                    "n", "o", "w", ".", "\n", "\n", "D", "e", "t", "a", "i",
                                    "l", "s", ":", " ", "F", "a", "i", "l", "e", "d", " ", "t",
                                    "o", " ", "f", "e", "t", "c", "h">>,
                      !.disabled = FALSE]
          /\ calls' = Without(i)
    /\ UNCHANGED <<page, late>> /\ ParserIdle

-----------------------------------------------------------------------------

PageNext ==
    \/ PromptPage_setSymptoms
    \/ PromptPage_handleSubmit
    \/ PredictEndpoint
    \/ PromptPage_settle
    \/ PromptPage_fetchRejects
    \/ PromptPage_resetForm
    \/ ReportPage_handleFileChange
    \/ ReportPage_setNotes
    \/ ReportPage_resetForm
    \/ ReportPage_handleSubmit
    \/ AnalyzeReportEndpoint
    \/ ReportPage_settle
    \/ ReportPage_fetchRejects
    \/ SymptomForm_input
    \/ SymptomForm_submit
    \/ GeminiEndpoint
    \/ SymptomForm_settle
    \/ SymptomForm_fetchRejects

PageSpec == PageInit /\ [][PageNext]_vars

\* The request of an invocation that awaits is answered or fails.
Responds ==
    \/ PredictEndpoint \/ PromptPage_fetchRejects
    \/ AnalyzeReportEndpoint \/ ReportPage_fetchRejects
    \/ GeminiEndpoint \/ SymptomForm_fetchRejects

\* The body of a response is read and the handler runs to its end.
Settles == PromptPage_settle \/ ReportPage_settle \/ SymptomForm_settle

\* Every request settles: the network answers or fails, and the event loop runs
\* the continuation of a handler whose await has resolved.
FairPageSpec == PageSpec /\ WF_vars(Responds) /\ WF_vars(Settles)

-----------------------------------------------------------------------------
(* What a walk has seen so far, recomputed from the lines rather than taken  *)
(* from the walk's own variables.                                            *)

Parsing == mode \in {"prediction", "report"}

\* The number of lines the loop has gone past.
Seen == IF pc \in {"loop", "done"} THEN pos - 1 ELSE 0

Trimmed(k) == trim(lines[k])

Classify(line) ==
    IF mode = "prediction" THEN resolveSection(line) ELSE resolveReportSection(line)

Normalize(line) == IF mode = "prediction" THEN cleanBullet(line) ELSE stripMarkers(line)

IsHeader(k) == Trimmed(k) # <<>> /\ Classify(Trimmed(k)) # NoSection

IsContent(k) == Trimmed(k) # <<>> /\ Classify(Trimmed(k)) = NoSection

\* The section the most recent header among the first k lines names.
ActiveAfter(k) ==
    LET headers == {j \in 1..k : IsHeader(j)}
        tag == Classify(Trimmed(Max(headers)))
    IN  IF headers = {} THEN "intro"
        ELSE IF tag = "summaryTitle" THEN "intro" ELSE tag

\* The field of the result that collects the content of a section.
BucketOf(sec) == IF mode = "prediction" /\ sec = "intro" THEN "introParagraphs" ELSE sec

ListFields ==
    IF mode = "prediction" THEN {"introParagraphs", "redFlags", "selfCare", "specialist"}
    ELSE {"intro", "findings", "diagnoses", "medications", "followups"}

\* Every field that collects content: the lists, the condition records, the disclaimer.
Buckets ==
    ListFields \cup {"disclaimer"} \cup (IF mode = "prediction" THEN {"conditions"} ELSE {})

Last(seq) == seq[Len(seq)]

\* The first character of a trimmed line is a dash, an asterisk, the bullet glyph
\* or a digit.
StartsWithBullet(k) == Trimmed(k)[1] \in {"-", "*", BulletGlyph} \cup Digit

\* The positions, among the first n lines, of the content lines met while sec was
\* the active section, in input order.
RoutedTo(sec, n) ==
    SelectSeq([k \in 1..n |-> k], LAMBDA k : IsContent(k) /\ ActiveAfter(k - 1) = sec)

NonEmpty(seq) == SelectSeq(seq, LAMBDA x : x # <<>>)

\* The normalized, non-empty content of the lines at the positions ks.
ContentOf(ks) == NonEmpty([j \in 1..Len(ks) |-> Normalize(Trimmed(ks[j]))])

Condition(t, s, l, p) ==
    [title |-> t, summary |-> s, confidenceLabel |-> l, confidencePercent |-> p]

-----------------------------------------------------------------------------
(* C1 *)

ClaimedLabels == {<<"H", "i", "g", "h">>, <<"M", "e", "d", "i", "u", "m">>, <<"L", "o", "w">>}
ClaimedTitles == {<<"F", "l", "u">>, <<"C", "o", "l", "d">>, <<"M", "i", "g", "r", "a", "i",
                                        "n", "e">>}
ClaimedSummaries == {<<"f", "e", "v", "e", "r", " ", "a", "n", "d", " ", "c", "o", "u", "g", "h">>}

ClaimedScore(l) == IF l = <<"H", "i", "g", "h">> THEN 75 ELSE IF l = <<"M", "e", "d", "i", "u",
                                        "m">> THEN 55 ELSE 35

\* C1: in prediction mode a Conditions line '- **L**: T - S' appends the record
\* (T, S, L, score of L), and '- **L**: T' appends (T, '', L, score of L); Scenario A
\* yields exactly (Flu, 'fever and cough', High, 75) and (Cold, '', Low, 35), and
\* Scenario D yields (Migraine, '', Medium, 55).
C1_LabelledCondition ==
    mode = "prediction" =>
        /\ \A l \in ClaimedLabels, t \in ClaimedTitles, s \in ClaimedSummaries \cup {<<>>} :
              ( /\ Seen >= 1
                /\ ActiveAfter(Seen - 1) = "conditions"
                /\ Trimmed(Seen) = <<"-", " ", "*", "*">> \o l \o <<"*", "*", ":", " ">> \o t
                                      \o (IF s = <<>> THEN <<>> ELSE <<" ", "-", " ">> \o s) )
              => /\ base.conditions # <<>>
                 /\ Last(base.conditions) = Condition(t, s, l, ClaimedScore(l))
        /\ (pc = "done" /\ rawText \in {ScenarioA, ScenarioACRLF})
              => base.conditions = << Condition(<<"F", "l", "u">>, <<"f", "e", "v", "e", "r",
                                        " ", "a", "n", "d", " ", "c", "o", "u", "g",
                                        "h">>, <<"H", "i", "g", "h">>, 75),
                                      Condition(<<"C", "o", "l", "d">>, <<>>, <<"L", "o",
                                        "w">>, 35) >>
        /\ (pc = "done" /\ rawText = ScenarioD)
              => base.conditions = << Condition(<<"M", "i", "g", "r", "a", "i", "n",
                                        "e">>, <<>>, <<"M", "e", "d", "i", "u", "m">>, 55) >>

-----------------------------------------------------------------------------
(* C2 *)

\* C2: at every step of either walk the active section is the tag of the most
\* recent header seen (Intro when there is none, and after a SummaryTitle line); a
\* step of the loop changes no bucket but that of the active section; a bucket is
\* empty while no header of its section has been seen; and a text without headers
\* leaves all its content in the intro bucket.
C2_StickySection ==
    /\ [](Parsing /\ pc \in {"loop", "done"} => section = ActiveAfter(Seen))
    /\ [][Parsing /\ pc = "loop" /\ pc' = "loop"
            => \A f \in Buckets : base'[f] # base[f] => f = BucketOf(section)]_vars
    /\ [](Parsing =>
            \A f \in Buckets \ {BucketOf("intro")} :
                base[f] # <<>> => \E k \in 1..Seen : IsHeader(k) /\ ActiveAfter(k) = f)
    /\ [](Parsing /\ pc = "done" /\ (\A k \in 1..Len(lines) : ~IsHeader(k))
            => NonEmpty(base[BucketOf("intro")]) = ContentOf(RoutedTo("intro", Len(lines))))

\* Reached: a finished walk that filled the intro bucket and three other sections.
C2_Witness ==
    /\ mode = "report" /\ pc = "done"
    /\ base.intro # <<>>
    /\ base.findings # <<>>
    /\ base.followups # <<>>
    /\ base.disclaimer # <<>>
    /\ base.diagnoses = <<>>

-----------------------------------------------------------------------------
(* C3 *)

ResultFields ==
    IF mode = "prediction"
    THEN {"introParagraphs", "conditions", "redFlags", "selfCare", "specialist", "disclaimer"}
    ELSE {"summaryTitle", "intro", "findings", "diagnoses", "medications", "followups",
          "disclaimer"}

\* null, undefined, the empty string or white space only.
BlankInput(v) == v \in {Null, Undefined} \/ \A k \in 1..Len(v) : v[k] \in WhiteSpace

\* The function has a step to take.
Running ==
    \/ PredictBeginIf \/ PredictSkipBlankIf \/ PredictHeaderIf \/ PredictConditionLineIf
    \/ PredictContentLineIf \/ PredictReturnIf
    \/ ReportBeginIf \/ ReportSkipBlankIf \/ ReportHeaderIf \/ ReportSkipEmptyIf
    \/ ReportContentLineIf \/ ReportReturnIf

\* C3: for every input, null and undefined included, both parsers run to their
\* return without throwing (no step is missing before the return and the loop never
\* leaves the lines), the result has every field, and a blank input returns the
\* result with every list empty and every string empty.
C3_TotalParsers ==
    Parsing =>
        /\ pc # "threw"
        /\ pc = "done" \/ Running
        /\ pos <= Len(lines) + 1
        /\ DOMAIN base = ResultFields
        /\ (pc = "done" /\ BlankInput(rawText))
              => \A f \in ResultFields : base[f] = <<>>

\* Reached: a walk over three white-space-only lines returned.
C3_Witness ==
    /\ Parsing /\ pc = "done"
    /\ rawText \notin {Null, Undefined}
    /\ BlankInput(rawText)
    /\ Len(lines) = 3

-----------------------------------------------------------------------------
(* C4 *)

\* A line made of bullet and numbering characters only.
MarkerOnly(k) == \A j \in 1..Len(Trimmed(k)) : Trimmed(k)[j] \in BulletClass

ItemCount ==
    LET n(f) == Len(base[f])
    IN  IF mode = "prediction"
        THEN n("introParagraphs") + n("conditions") + n("redFlags") + n("selfCare")
                + n("specialist")
        ELSE n("intro") + n("findings") + n("diagnoses") + n("medications") + n("followups")

\* C4: in both modes no element of a returned list is the empty string, and a line
\* of bullet and numbering characters only adds nothing: the lists hold no more
\* items than content lines that are not marker-only were seen.
C4_NoEmptyItem ==
    Parsing =>
        /\ \A f \in ListFields : \A k \in 1..Len(base[f]) : base[f][k] # <<>>
        /\ ItemCount <= Cardinality({k \in 1..Seen :
                                        /\ IsContent(k)
                                        /\ ~MarkerOnly(k)
                                        /\ ActiveAfter(k - 1) # "disclaimer"})

-----------------------------------------------------------------------------
(* C5 *)

\* C5: every record of conditions has a non-empty title: the line '- Flu **High**'
\* keeps its record, a line of a bullet, a bold label and a colon yields none.
C5_TitledConditions ==
    mode = "prediction" =>
        /\ \A k \in 1..Len(base.conditions) : base.conditions[k].title # <<>>
        /\ (pc = "done" /\ rawText = LabelOnlyScenario) => base.conditions = <<>>
        /\ (Seen >= 1 /\ ActiveAfter(Seen - 1) = "conditions"
                /\ Trimmed(Seen) = <<"-", " ", "F", "l", "u", " ", "*", "*", "H", "i", "g", "h",
                                     "*", "*">>)
              => /\ base.conditions # <<>>
                 /\ Last(base.conditions) = Condition(<<"F", "l", "u">>, <<>>, <<"H", "i", "g",
                                        "h">>, 75)

-----------------------------------------------------------------------------
(* C6 *)

\* C6: the step over a header line leaves every list, the condition records and the
\* disclaimer as they were, whatever the active section and the rest of the line;
\* only a SummaryTitle line changes summaryTitle.
C6_HeaderConsumed ==
    [][(Parsing /\ pc = "loop" /\ pos <= Len(lines) /\ IsHeader(pos))
          => /\ pos' = pos + 1
             /\ \A f \in Buckets : base'[f] = base[f]
             /\ (mode = "report" /\ base'.summaryTitle # base.summaryTitle)
                   => Classify(Trimmed(pos)) = "summaryTitle"]_vars

\* Reached: a header that carries other text was passed while a section that
\* already held content was active.
C6_Witness ==
    /\ Parsing /\ Seen >= 3
    /\ IsHeader(Seen)
    /\ Classify(Trimmed(Seen)) \notin {"summaryTitle", ActiveAfter(Seen - 1)}
    /\ Len(Trimmed(Seen)) > 20
    /\ ActiveAfter(Seen - 1) # "intro"
    /\ base[BucketOf(ActiveAfter(Seen - 1))] # <<>>

-----------------------------------------------------------------------------
(* C7 *)

\* The rules in the order the claim gives them.
ClaimedOrder ==
    IF mode = "resolveSection"
    THEN <<"conditions", "redFlags", "selfCare", "specialist", "disclaimer">>
    ELSE <<"summaryTitle", "findings", "diagnoses", "medications", "followups",
           "disclaimer">>

\* The keywords of a rule, lower case; those of SelfCare are 'self-care' and
\* 'self-monitor', the hyphen optional.
ClaimedKeywords(tag) ==
    CASE tag = "conditions"  -> {<<"l", "i", "k", "e", "l", "y", " ", "c", "o", "n", "d", "i",
                                   "t", "i", "o", "n", "s">>}
      [] tag = "redFlags"    -> {<<"r", "e", "d", " ", "f", "l", "a", "g", "s">>}
      [] tag = "selfCare"    -> {<<"s", "e", "l", "f", "-", "c", "a", "r", "e">>, <<"s", "e",
                                        "l", "f", "c", "a", "r", "e">>, <<"s", "e", "l", "f",
                                        "-", "m", "o", "n", "i", "t", "o", "r">>, <<"s", "e",
                                        "l", "f", "m", "o", "n", "i", "t", "o", "r">>}
      [] tag = "specialist"  -> {<<"s", "p", "e", "c", "i", "a", "l", "i", "s", "t">>, <<"d",
                                        "o", "c", "t", "o", "r">>, <<"c", "l", "i", "n", "i",
                                        "c", "i", "a", "n">>}
      [] tag = "findings"    -> {<<"k", "e", "y", " ", "f", "i", "n", "d", "i", "n", "g",
                                   "s">>, <<"i", "m", "p", "r", "e", "s", "s", "i", "o", "n", "s">>}
      [] tag = "diagnoses"   -> {<<"d", "i", "a", "g", "n", "o", "s", "e", "s">>, <<"d", "i",
                                        "f", "f", "e", "r", "e", "n", "t", "i", "a", "l">>}
      [] tag = "medications" -> {<<"m", "e", "d", "i", "c", "a", "t", "i", "o", "n",
                                   "s">>, <<"l", "a", "b", "s">>}
      [] tag = "followups"   -> {<<"f", "o", "l", "l", "o", "w", "-", "u", "p">>, <<"f", "o",
                                        "l", "l", "o", "w", " ", "u", "p">>}
      [] tag = "disclaimer"  -> {<<"d", "i", "s", "c", "l", "a", "i", "m", "e", "r">>}

\* The keywords as amended: SelfCare also with one white-space character between
\* 'self' and the word.
AmendedKeywords(tag) ==
    IF tag = "selfCare"
    THEN ClaimedKeywords(tag)
            \cup {<<"s", "e", "l", "f">> \o <<w>> \o word : w \in WhiteSpace, word \in {<<"c",
                                        "a", "r", "e">>, <<"m", "o", "n", "i", "t", "o", "r">>}}
    ELSE ClaimedKeywords(tag)

\* The rule of tag matches the lower-cased line l.
RuleMatches(amended, tag, l) ==
    IF tag = "summaryTitle" THEN Len(l) >= 9 /\ SubSeq(l, 1, 9) = <<"*", "*", "s", "u", "m",
                                        "m", "a", "r", "y">>
    ELSE \E w \in (IF amended THEN AmendedKeywords(tag) ELSE ClaimedKeywords(tag)) :
            \E k \in 1..(Len(l) - Len(w) + 1) : SubSeq(l, k, k + Len(w) - 1) = w

\* The classifier returned the tag of the first rule that matches, null when none does.
FirstMatchWins(amended) ==
    LET l == toLowerCase(rawText)
        n == Len(ClaimedOrder)
        first(k) == RuleMatches(amended, ClaimedOrder[k], l)
                        /\ \A j \in 1..(k - 1) : ~RuleMatches(amended, ClaimedOrder[j], l)
    IN  /\ \A k \in 1..n : first(k) => returned = ClaimedOrder[k]
        /\ (\A k \in 1..n : ~first(k)) => returned = NoSection

\* C7 as claimed: resolveSection and resolveReportSection return the tag of the first
\* rule, in the claimed order, one of whose keywords ('self-care', 'self-monitor',
\* hyphen optional, for SelfCare) occurs in the line in any case, and null when no
\* keyword occurs.
C7_FirstMatchAsClaimed == pc = "return" => FirstMatchWins(FALSE)

\* C7 as amended: the same, where the SelfCare rule also matches 'self' and 'care' or
\* 'monitor' with one white-space character between them.
C7_FirstMatchWins == pc = "return" => FirstMatchWins(TRUE)

\* Reached: a line with the keywords of two rules, the later rule's keyword first in
\* the line, was resolved to the earlier rule.
C7_Witness ==
    /\ pc = "return"
    /\ mode = "resolveSection"
    /\ returned = "specialist"
    /\ LET l == toLowerCase(rawText)
       IN  /\ indexOf(l, <<"d", "i", "s", "c", "l", "a", "i", "m", "e", "r">>, 1) > 0
           /\ indexOf(l, <<"d", "i", "s", "c", "l", "a", "i", "m", "e",
                           "r">>, 1) < indexOf(l, <<"d", "o", "c", "t", "o", "r">>, 1)

-----------------------------------------------------------------------------
(* C8 *)

\* C8: while Conditions is active, a content line without a bullet prefix changes
\* neither the result nor the active section; the condition records are never more
\* than the bullet-prefixed content lines seen under Conditions, and they are the
\* records of those lines in input order.
C8_ProseDiscarded ==
    /\ [][(mode = "prediction" /\ pc = "loop" /\ pos <= Len(lines)
              /\ section = "conditions" /\ IsContent(pos) /\ ~StartsWithBullet(pos))
            => base' = base /\ section' = section /\ pos' = pos + 1]_vars
    /\ [](mode = "prediction" =>
            LET bullets == SelectSeq(RoutedTo("conditions", Seen), StartsWithBullet)
                records == [j \in 1..Len(bullets) |-> parseCondition(Trimmed(bullets[j]))]
            IN  /\ Len(base.conditions) <= Len(bullets)
                /\ base.conditions = SelectSeq(records, LAMBDA r : r # NoCondition))

\* Reached: a prose line was passed under Conditions after a record was stored.
C8_Witness ==
    /\ mode = "prediction" /\ Seen >= 3
    /\ ActiveAfter(Seen - 1) = "conditions"
    /\ IsContent(Seen)
    /\ ~StartsWithBullet(Seen)
    /\ Len(base.conditions) = 1

-----------------------------------------------------------------------------
(* C9 *)

\* The line begins with '**Summary', in any case.
SummaryLine(k) == At(toLowerCase(Trimmed(k)), <<"*", "*", "s", "u", "m", "m", "a", "r", "y">>, 1)

\* C9: in report mode the step over a '**Summary' line stores its marker-stripped
\* text in summaryTitle and makes Intro the active section, whatever section was
\* active; summaryTitle is that of the last such line seen; the content line after
\* it goes to intro; Scenario C yields a summaryTitle containing 'Mild infection',
\* findings ['Elevated WBC'] and diagnoses ['Viral infection (med)'].
C9_SummaryTitle ==
    /\ [][(mode = "report" /\ pc = "loop" /\ pos <= Len(lines) /\ SummaryLine(pos))
            => /\ base'.summaryTitle = stripMarkers(lines[pos])
               /\ section' = "intro"]_vars
    /\ [](mode = "report" =>
            LET summaries == {k \in 1..Seen : SummaryLine(k)}
            IN  base.summaryTitle =
                    IF summaries = {} THEN <<>> ELSE stripMarkers(Trimmed(Max(summaries))))
    /\ [](mode = "report" /\ Seen >= 2 /\ SummaryLine(Seen - 1) /\ IsContent(Seen)
              /\ stripMarkers(Trimmed(Seen)) # <<>>
            => base.intro # <<>> /\ Last(base.intro) = stripMarkers(Trimmed(Seen)))
    /\ [](mode = "report" /\ pc = "done" /\ rawText = ScenarioC
            => /\ includes(base.summaryTitle, <<"M", "i", "l", "d", " ", "i", "n", "f", "e",
                                        "c", "t", "i", "o", "n">>)
               /\ base.findings = << <<"E", "l", "e", "v", "a", "t", "e", "d", " ", "W", "B",
                                       "C">> >>
               /\ base.diagnoses = << <<"V", "i", "r", "a", "l", " ", "i", "n", "f", "e", "c",
                                        "t", "i", "o", "n", " ", "(", "m", "e", "d", ")">> >>)

\* Reached: a '**Summary' line was passed while Findings was active, and the
\* content line after it was stored in intro.
C9_Witness ==
    /\ mode = "report" /\ Seen >= 3
    /\ ActiveAfter(Seen - 2) = "findings"
    /\ SummaryLine(Seen - 1)
    /\ IsContent(Seen)
    /\ base.intro # <<>>
    /\ base.findings = <<>>
    /\ base.summaryTitle # <<>>

-----------------------------------------------------------------------------
(* C10 *)

NoDoubleSpace(s) == \A k \in 1..(Len(s) - 1) : ~(s[k] = " " /\ s[k + 1] = " ")

\* C10: in both modes the returned disclaimer is the normalized content of the lines
\* routed to Disclaimer, in input order, joined by one space, without leading or
\* trailing white space and without two consecutive spaces; 'This is for' and
\* 'information only.' yield 'This is for information only.'.
C10_DisclaimerJoined ==
    (Parsing /\ pc = "done" /\ ~falsy(rawText)) =>
        /\ base.disclaimer = join(ContentOf(RoutedTo("disclaimer", Len(lines))), <<" ">>)
        /\ trim(base.disclaimer) = base.disclaimer
        /\ NoDoubleSpace(base.disclaimer)
        /\ rawText = DisclaimerScenario
              => base.disclaimer = <<"T", "h", "i", "s", " ", "i", "s", " ", "f", "o", "r", " ",
                                     "i", "n", "f", "o", "r", "m", "a", "t", "i", "o", "n", " ",
                                     "o", "n", "l", "y", ".">>

-----------------------------------------------------------------------------
(* C11 *)

\* The word w occurs in the label l when case is ignored.
Occurs(w, l) ==
    \E k \in 1..(Len(l) - Len(w) + 1) :
        \A j \in 1..Len(w) :
            LET c == l[k + j - 1]
            IN  c = w[j] \/ (c \in DOMAIN LowerOf /\ LowerOf[c] = w[j])

\* C11: mapConfidence returns 75 for every label that contains 'high' in any case,
\* otherwise 55 for one that contains 'med', otherwise 35 for one that contains
\* 'low', otherwise 60, the empty label included; the score is always one of the
\* four, and 'high' wins over 'med' and 'low' in the same label.
C11_ConfidenceScore ==
    (mode = "mapConfidence" /\ pc = "return") =>
        /\ returned \in {75, 55, 35, 60}
        /\ returned = 75 <=> Occurs(<<"h", "i", "g", "h">>, rawText)
        /\ returned = 55 <=> ~Occurs(<<"h", "i", "g", "h">>, rawText) /\ Occurs(<<"m", "e",
                                        "d">>, rawText)
        /\ returned = 35 <=> /\ ~Occurs(<<"h", "i", "g", "h">>, rawText) /\ ~Occurs(<<"m", "e",
                                        "d">>, rawText)
                             /\ Occurs(<<"l", "o", "w">>, rawText)
        /\ rawText = <<>> => returned = 60

\* A label with 'high' and 'low' in it has been scored.
C11_Witness ==
    /\ mode = "mapConfidence" /\ pc = "return"
    /\ Occurs(<<"h", "i", "g", "h">>, rawText) /\ Occurs(<<"l", "o", "w">>, rawText)
    /\ returned = 75

-----------------------------------------------------------------------------
(* C12 *)

\* C12: cleanBullet is idempotent, and its result neither begins with a dash, an
\* asterisk, the bullet glyph, a digit, a full stop, a closing parenthesis or white
\* space, nor holds two white-space characters in a row, nor ends in white space.
C12_CleanBulletIdempotent ==
    (mode = "cleanBullet" /\ pc = "return") =>
        /\ cleanBullet(returned) = returned
        /\ returned # <<>> => returned[1] \notin BulletClass
        /\ \A k \in 1..(Len(returned) - 1) :
              ~(returned[k] \in WhiteSpace /\ returned[k + 1] \in WhiteSpace)
        /\ returned # <<>> => returned[Len(returned)] \notin WhiteSpace

\* A line with a leading run of markers, a run of white space inside and white
\* space at its end has been normalized to text.
C12_Witness ==
    /\ mode = "cleanBullet" /\ pc = "return"
    /\ returned # <<>>
    /\ Len(rawText) > Len(returned) + 2
    /\ rawText[1] \in BulletClass
    /\ rawText[Len(rawText)] \in WhiteSpace
    /\ \E k \in 1..(Len(returned) - 1) : returned[k] = " "

-----------------------------------------------------------------------------
(* C13 *)

\* C13: every item buildReportStructure stores has lost its whole leading run of
\* bullet and numbering characters: no item begins with a dash, an asterisk, a digit,
\* a full stop or a closing parenthesis, stripMarkers leaves every item as it is, and
\* the line '1. Elevated WBC' is stored as 'Elevated WBC'.
C13_ReportItemsNormalized ==
    mode = "report" =>
        /\ \A f \in ListFields : \A k \in 1..Len(base[f]) :
              /\ base[f][k][1] \notin {"-", "*", ".", ")"} \cup Digit
              /\ stripMarkers(base[f][k]) = base[f][k]
        /\ \A k \in 1..Seen :
              (Trimmed(k) = <<"1", ".", " ", "E", "l", "e", "v", "a", "t", "e", "d", " ", "W",
                              "B", "C">> /\ ActiveAfter(k - 1) # "disclaimer")
                  => \E j \in 1..Len(base[ActiveAfter(k - 1)]) :
                        base[ActiveAfter(k - 1)][j] = <<"E", "l", "e", "v", "a", "t", "e", "d",
                                        " ", "W", "B", "C">>

-----------------------------------------------------------------------------
(* What is seen of a page *)

OnPage == mode = "page"

\* The page shows that a request is pending.
Loading == IF page = "SymptomForm" THEN ui.disabled ELSE ui.isLoading

\* The input a submit handler accepts.
ValidInput == IF page = "ReportPage" THEN ui.file # NoFile ELSE trim(ui.symptoms) # <<>>

\* The step applies the outcome of the i-th pending invocation to the page.
Applied(i) ==
    LET call == calls[i]
    IN  IF page = "SymptomForm" THEN ui'.results # <<>> /\ ~ui'.disabled
        ELSE IF call.stage = "fetch" THEN ui'.error # <<>> /\ ~ui'.isLoading
        ELSE IF ok(call.response)
        THEN /\ ui'.result # <<>>
             /\ "result" \in DOMAIN call.response.body
                    => ui'.result = call.response.body.result
             /\ ui'.timestamp = Now
             /\ ~ui'.isLoading
        ELSE ui'.error # <<>> /\ ~ui'.isLoading

-----------------------------------------------------------------------------
(* C14 *)

\* C14: no user action cancels a pending request: an invocation leaves calls only
\* in a step that applies its outcome to the page, whatever the user has done to
\* the page since, and every other step keeps the request of every pending
\* invocation; so the analysis of a report can appear after the form was reset.
C14_NoCancellation ==
    [][OnPage =>
        /\ Len(calls') < Len(calls)
              => \E i \in 1..Len(calls) : calls' = Without(i) /\ Applied(i)
        /\ Len(calls') >= Len(calls)
              => \A i \in 1..Len(calls) : calls'[i].request = calls[i].request]_vars

\* The report page shows an analysis and its time although the form was reset
\* while the request was pending: no file is selected.
C14_Witness ==
    /\ OnPage /\ page = "ReportPage"
    /\ late /\ calls = <<>>
    /\ ui.result # <<>> /\ ui.timestamp = Now
    /\ ui.file = NoFile /\ ~ui.isLoading

-----------------------------------------------------------------------------
(* C15 *)

\* What can fail upstream of the backend: the Gemini call answers with a non-OK
\* status, throws, or answers with a body that cannot be read; the extraction throws
\* or yields no text.
Failures == {"nonOk", "throws", "badJson", "extraction", "emptyText"}

\* C15: on PromptPage and ReportPage, the answer of the backend to a request whose
\* text generation or extraction failed has a non-2xx status and a JSON body with a
\* non-empty error string, and the page ends that request with error non-empty,
\* result empty and isLoading false.
C15_FailuresSurface ==
    /\ [](OnPage /\ page # "SymptomForm" =>
            \A i \in 1..Len(calls) :
                (calls[i].stage = "json" /\ calls[i].cause \in Failures) =>
                    /\ ~ok(calls[i].response)
                    /\ calls[i].response.json
                    /\ "error" \in DOMAIN calls[i].response.body
                    /\ calls[i].response.body.error # <<>>)
    /\ [][OnPage /\ page # "SymptomForm" =>
            \A i \in 1..Len(calls) :
                (/\ calls[i].stage = "json" /\ calls[i].cause \in Failures
                 /\ calls' = Without(i)) =>
                    ui'.error # <<>> /\ ui'.result = <<>> /\ ~ui'.isLoading]_vars

\* The report page shows the message of a PDF that could not be read.
C15_Witness ==
    /\ OnPage /\ page = "ReportPage"
    /\ calls = <<>> /\ ~ui.isLoading
    /\ includes(ui.error, <<"U", "n", "a", "b", "l", "e", " ", "t", "o", " ", "r", "e", "a",
                            "d", " ", "P", "D", "F">>)
    /\ ui.result = <<>>

-----------------------------------------------------------------------------
(* C16 *)

-----------------------------------------------------------------------------
(* C17 *)

\* C17: when every request settles, a page that is loading is later not loading,
\* whatever the outcome of the request; and a step starts a request or makes the
\* page loading only from valid input, when it does both.
C17_LoadingEnds ==
    /\ (OnPage /\ Loading) ~> ~Loading
    /\ [][OnPage /\ (Len(calls') > Len(calls) \/ (~Loading /\ Loading'))
            => ValidInput /\ Len(calls') = Len(calls) + 1 /\ Loading']_vars

\* PromptPage has ended a request that was answered with a non-OK status and a body
\* that is not JSON.
C17_Witness ==
    /\ OnPage /\ page = "PromptPage"
    /\ calls = <<>> /\ ~ui.isLoading
    /\ ui.error = <<"P", "r", "e", "d", "i", "c", "t", "i", "o", "n", " ", "f", "a", "i", "l",
                    "e", "d", " ", "(", "s", "t", "a", "t", "u", "s", " ", "4", "1", "3", ")",
                    ".", " ", "T", "r", "y", " ", "a", "g", "a", "i", "n", ".">>

-----------------------------------------------------------------------------
(* C18 *)

\* C18: in every state of PromptPage and of ReportPage at most one of error and
\* result is non-empty.
C18_ErrorOrResult ==
    (OnPage /\ page # "SymptomForm") => ~(ui.error # <<>> /\ ui.result # <<>>)

=============================================================================
